---------------------------- MODULE Spec2Model ----------------------------
(***************************************************************************)
(* Order management service: the order aggregate (internal/models), the    *)
(* MongoDB repository with its version-conditioned write, the Redis cache  *)
(* repository, the Kafka producer and the order service that sequences     *)
(* them (internal/services/order.go).  Every request runs in its own       *)
(* goroutine; a step of the model is one round trip to a collaborator      *)
(* together with the local computation that follows it.                    *)
(***************************************************************************)
EXTENDS Integers, Sequences, FiniteSets, TLC

(* ------------------------------ bounds -------------------------------- *)
\* identifiers uuid.New() can produce for orders
MaxOrders == 1
\* requests that are in flight at the same time
MaxProcs == 2

OrderIDs == 1..MaxOrders
Procs == 1..MaxProcs

(* ------------------- internal/models/order.go ------------------------- *)
StatusNew == "NEW"
StatusInProgress == "IN_PROGRESS"
StatusDelivered == "DELIVERED"
StatusCancelled == "CANCELLED"

Statuses == {StatusNew, StatusInProgress, StatusDelivered, StatusCancelled}
\* a status string a client may send that is none of the four constants
UnknownStatus == "SHIPPED"
StatusInputs == Statuses \cup {UnknownStatus}

ErrNone == "nil"
ErrInvalidStatusTransition == "invalid status transition"
ErrInvalidOrderData == "invalid order data"

\* HTTP status codes used by the repositories and the service
StatusOK == 200
StatusBadRequest == 400
StatusNotFound == 404
StatusConflict == 409
StatusInternalServerError == 500

\* the nil order pointer, the absent document, the absent cache entry
NoOrder == [ID |-> 0]
NoDoc == [_id |-> 0]
NoBlob == [orderId |-> 0]
NoResult == [status |-> 0]
\* a nil *RepositoryError / *ServiceError
NoErr == 0
\* a document field that was never set
Unset == 0

\* customer identifiers a client may send; uuid.Parse accepts the last one
CustomerA == "123e4567-e89b-12d3-a456-426614174000"
CustomerB == "550e8400-e29b-41d4-a716-446655440000"
ValidUUIDs == {CustomerA, CustomerB}
CustomerInputs == {"", "customer-456", CustomerA}

IsUUID(s) == s \in ValidUUIDs

\* line items a client may send (quantity, price in cents)
Item(q, pr) == [Quantity |-> q, Price |-> pr]
ItemInputs == { <<>>,
                <<Item(2, 5), Item(1, 3)>>,
                <<Item(0, 5)>>,
                <<Item(1, 3), Item(1, 0)>> }

IsValid(s) == s \in {StatusNew, StatusInProgress, StatusDelivered, StatusCancelled}

Subtotal(i) == i.Quantity * i.Price

RECURSIVE SumSubtotals(_)
SumSubtotals(items) ==
    IF items = <<>> THEN 0
    ELSE Subtotal(Head(items)) + SumSubtotals(Tail(items))

\* mutant: the total adds up the prices and ignores the quantities
NewOrder_TotalOfPrices(customerID, items, id, now) ==
    IF customerID = "" THEN [order |-> NoOrder, err |-> ErrInvalidOrderData]
    ELSE IF Len(items) = 0 THEN [order |-> NoOrder, err |-> ErrInvalidOrderData]
    ELSE IF ~IsUUID(customerID) THEN [order |-> NoOrder, err |-> ErrInvalidOrderData]
    ELSE IF \E k \in 1..Len(items) : items[k].Quantity <= 0 \/ items[k].Price <= 0
         THEN [order |-> NoOrder, err |-> ErrInvalidOrderData]
    ELSE [order |-> [ID |-> id, CustomerID |-> customerID, Status |-> StatusNew,
                     Items |-> items,
                     TotalAmount |-> SumSubtotals([k \in 1..Len(items) |->
                                                     Item(1, items[k].Price)]),
                     Version |-> 1, CreatedAt |-> now, UpdatedAt |-> now],
          err |-> ErrNone]

\* mutant: only negative quantities and prices are refused
NewOrder_ZeroAccepted(customerID, items, id, now) ==
    IF customerID = "" THEN [order |-> NoOrder, err |-> ErrInvalidOrderData]
    ELSE IF Len(items) = 0 THEN [order |-> NoOrder, err |-> ErrInvalidOrderData]
    ELSE IF ~IsUUID(customerID) THEN [order |-> NoOrder, err |-> ErrInvalidOrderData]
    ELSE IF \E k \in 1..Len(items) : items[k].Quantity < 0 \/ items[k].Price < 0
         THEN [order |-> NoOrder, err |-> ErrInvalidOrderData]
    ELSE [order |-> [ID |-> id, CustomerID |-> customerID, Status |-> StatusNew,
                     Items |-> items, TotalAmount |-> SumSubtotals(items),
                     Version |-> 1, CreatedAt |-> now, UpdatedAt |-> now],
          err |-> ErrNone]

\* NewOrder: the order, or nil with ErrInvalidOrderData.  id stands for
\* uuid.New(), now for time.Now().
NewOrder(customerID, items, id, now) ==
    IF customerID = "" THEN [order |-> NoOrder, err |-> ErrInvalidOrderData]
    ELSE IF Len(items) = 0 THEN [order |-> NoOrder, err |-> ErrInvalidOrderData]
    ELSE IF ~IsUUID(customerID) THEN [order |-> NoOrder, err |-> ErrInvalidOrderData]
    ELSE IF \E k \in 1..Len(items) : items[k].Quantity <= 0 \/ items[k].Price <= 0
         THEN [order |-> NoOrder, err |-> ErrInvalidOrderData]
    ELSE [order |-> [ID |-> id, CustomerID |-> customerID, Status |-> StatusNew,
                     Items |-> items, TotalAmount |-> SumSubtotals(items),
                     Version |-> 1, CreatedAt |-> now, UpdatedAt |-> now],
          err |-> ErrNone]

\* mutant: the switch lets NEW go straight to DELIVERED
CanTransitionTo_SkipAllowed(status, newStatus) ==
    CASE status = StatusNew ->
            newStatus = StatusInProgress \/ newStatus = StatusCancelled
                                         \/ newStatus = StatusDelivered
      [] status = StatusInProgress ->
            newStatus = StatusDelivered \/ newStatus = StatusCancelled
      [] status \in {StatusDelivered, StatusCancelled} -> FALSE
      [] OTHER -> FALSE

CanTransitionTo(status, newStatus) ==
    CASE status = StatusNew ->
            newStatus = StatusInProgress \/ newStatus = StatusCancelled
      [] status = StatusInProgress ->
            newStatus = StatusDelivered \/ newStatus = StatusCancelled
      [] status \in {StatusDelivered, StatusCancelled} -> FALSE
      [] OTHER -> FALSE

\* mutant: the version is left as it was read
UpdateStatus_NoIncrement(o, newStatus, now) ==
    IF ~IsValid(newStatus) THEN [order |-> o, err |-> ErrInvalidOrderData]
    ELSE IF ~CanTransitionTo(o.Status, newStatus)
         THEN [order |-> o, err |-> ErrInvalidStatusTransition]
    ELSE [order |-> [o EXCEPT !.Status = newStatus, !.UpdatedAt = now],
          err |-> ErrNone]

\* mutant: the transition table is consulted before the target is validated
UpdateStatus_TransitionFirst(o, newStatus, now) ==
    IF ~CanTransitionTo(o.Status, newStatus)
    THEN [order |-> o, err |-> ErrInvalidStatusTransition]
    ELSE IF ~IsValid(newStatus) THEN [order |-> o, err |-> ErrInvalidOrderData]
    ELSE [order |-> [o EXCEPT !.Status = newStatus, !.UpdatedAt = now,
                               !.Version = o.Version + 1],
          err |-> ErrNone]

\* Order.UpdateStatus: the aggregate after the call and the error returned
UpdateStatus(o, newStatus, now) ==
    IF ~IsValid(newStatus) THEN [order |-> o, err |-> ErrInvalidOrderData]
    ELSE IF ~CanTransitionTo(o.Status, newStatus)
         THEN [order |-> o, err |-> ErrInvalidStatusTransition]
    ELSE [order |-> [o EXCEPT !.Status = newStatus, !.UpdatedAt = now,
                               !.Version = o.Version + 1],
          err |-> ErrNone]

\* mutant: the two status arguments are swapped
NewOrderStatusChangedEvent_Swapped(orderID, customerID, oldStatus, newStatus) ==
    [EventType |-> "ORDER_STATUS_CHANGED", OrderID |-> orderID,
     CustomerID |-> customerID, OldStatus |-> newStatus, NewStatus |-> oldStatus]

\* models.NewOrderStatusChangedEvent (event id and timestamp left out)
EventOrderStatusChanged == "ORDER_STATUS_CHANGED"
NewOrderStatusChangedEvent(orderID, customerID, oldStatus, newStatus) ==
    [EventType |-> EventOrderStatusChanged, OrderID |-> orderID,
     CustomerID |-> customerID, OldStatus |-> oldStatus, NewStatus |-> newStatus]

(* ------------------------------ state --------------------------------- *)
VARIABLES
    store,      \* MongoDB collection "orders": _id -> document, or NoDoc
    cache,      \* Redis: order id (key "order:"+id) -> JSON blob, or NoBlob
    handed,     \* per message key (order id): the events passed to the Kafka
                \* producer, in the order of the PublishOrderEvent calls
    proc,       \* per request goroutine: position and local variables
    commits,    \* history: per order, the transitions committed in the store
                \*          and the request that committed each
    succ,       \* history: per order, UpdateOrderStatus calls that returned success
    lateWrite,  \* history: per order, the cache entry was written when the
                \*          store already held a later version
    age         \* Redis: per key, the time units its entry has lived since the
                \*        SET that wrote it (0 when there is no entry)

vars == <<store, cache, handed, proc, commits, succ, lateWrite, age>>


\* time.Now() in NewOrder: an instant after the creation of every stored order
NowAtCreate == 1 + Cardinality({i \in OrderIDs : store[i] # NoDoc})

\* time.Now() in Order.UpdateStatus: an instant after the timestamps of the
\* aggregate that was read
NowAtUpdate(o) == o.UpdatedAt + 1

(* ---------------- internal/repositories/mongodb/order.go -------------- *)
\* the document the driver builds from the bson tags of models.Order
ToBSON(o) ==
    [_id |-> o.ID, customerId |-> o.CustomerID, status |-> o.Status,
     items |-> o.Items, totalAmount |-> o.TotalAmount, version |-> o.Version,
     createdAt |-> o.CreatedAt, updatedAt |-> o.UpdatedAt, updated_at |-> Unset]

\* Decode: the struct fields are filled from the documents' tagged keys
FromBSON(d) ==
    [ID |-> d._id, CustomerID |-> d.customerId, Status |-> d.status,
     Items |-> d.items, TotalAmount |-> d.totalAmount, Version |-> d.version,
     CreatedAt |-> d.createdAt, UpdatedAt |-> d.updatedAt]

\* mutant: a duplicate key error is reported like any other driver error
Create_DuplicateAs500(st, order, fault) ==
    IF fault THEN [store |-> st, err |-> StatusInternalServerError]
    ELSE IF st[order.ID] # NoDoc THEN [store |-> st, err |-> StatusInternalServerError]
    ELSE [store |-> [st EXCEPT ![order.ID] = ToBSON(order)], err |-> NoErr]

\* OrderRepository.Create: InsertOne; fault is a driver error
Create(st, order, fault) ==
    IF fault THEN [store |-> st, err |-> StatusInternalServerError]
    ELSE IF st[order.ID] # NoDoc THEN [store |-> st, err |-> StatusConflict]
    ELSE [store |-> [st EXCEPT ![order.ID] = ToBSON(order)], err |-> NoErr]

\* mutant: mongo.ErrNoDocuments is reported as a bad request
FindByID_NoDocumentsAs400(st, id, fault) ==
    IF fault THEN [order |-> NoOrder, err |-> StatusInternalServerError]
    ELSE IF st[id] = NoDoc THEN [order |-> NoOrder, err |-> StatusBadRequest]
    ELSE [order |-> FromBSON(st[id]), err |-> NoErr]

\* OrderRepository.FindByID: FindOne by _id and Decode
FindByID(st, id, fault) ==
    IF fault THEN [order |-> NoOrder, err |-> StatusInternalServerError]
    ELSE IF st[id] = NoDoc THEN [order |-> NoOrder, err |-> StatusNotFound]
    ELSE [order |-> FromBSON(st[id]), err |-> NoErr]

\* the filter document of FindWithFilters applied to one document
Matches(d, status, customerID) ==
    /\ d # NoDoc
    /\ (status # "" => d.status = status)
    /\ (customerID # "" => d.customerId = customerID)

RECURSIVE SortByCreatedAtDesc(_)
SortByCreatedAtDesc(docs) ==
    IF docs = {} THEN <<>>
    ELSE LET newest == CHOOSE d \in docs : \A e \in docs : e.createdAt <= d.createdAt
         IN <<newest>> \o SortByCreatedAtDesc(docs \ {newest})

\* cursor options SetSkip and SetLimit
SkipLimit(s, skip, limit) ==
    SubSeq(s, skip + 1, IF skip + limit < Len(s) THEN skip + limit ELSE Len(s))

\* mutant: the skip is computed from the page number, not from page - 1
FindWithFilters_SkipFromPage(st, status, customerID, page, limit, fault) ==
    IF fault THEN [orders |-> <<>>, total |-> 0, err |-> StatusInternalServerError]
    ELSE LET matching == {st[i] : i \in {j \in DOMAIN st : Matches(st[j], status, customerID)}}
             sorted == SortByCreatedAtDesc(matching)
             skip == page * limit
             docs == SkipLimit(sorted, skip, limit)
         IN [orders |-> [k \in 1..Len(docs) |-> FromBSON(docs[k])],
             total |-> Cardinality(matching), err |-> NoErr]

\* OrderRepository.FindWithFilters: CountDocuments, then Find sorted by
\* createdAt descending with skip = (page-1)*limit
FindWithFilters(st, status, customerID, page, limit, fault) ==
    IF fault THEN [orders |-> <<>>, total |-> 0, err |-> StatusInternalServerError]
    ELSE LET matching == {st[i] : i \in {j \in DOMAIN st : Matches(st[j], status, customerID)}}
             sorted == SortByCreatedAtDesc(matching)
             skip == (page - 1) * limit
             docs == SkipLimit(sorted, skip, limit)
         IN [orders |-> [k \in 1..Len(docs) |-> FromBSON(docs[k])],
             total |-> Cardinality(matching), err |-> NoErr]

\* mutant: the filter matches on _id alone
UpdateOne_NoVersionFilter(st, order, fault) ==
    IF fault THEN [store |-> st, matched |-> 0, err |-> StatusInternalServerError]
    ELSE IF st[order.ID] # NoDoc
         THEN [store |-> [st EXCEPT ![order.ID] =
                             [@ EXCEPT !.status = order.Status,
                                       !.updated_at = order.UpdatedAt,
                                       !.version = order.Version]],
               matched |-> 1, err |-> NoErr]
    ELSE [store |-> st, matched |-> 0, err |-> NoErr]

\* mutant: $set leaves the version out
UpdateOne_VersionNotSet(st, order, fault) ==
    IF fault THEN [store |-> st, matched |-> 0, err |-> StatusInternalServerError]
    ELSE IF st[order.ID] # NoDoc /\ st[order.ID].version = order.Version - 1
         THEN [store |-> [st EXCEPT ![order.ID] =
                             [@ EXCEPT !.status = order.Status,
                                       !.updated_at = order.UpdatedAt]],
               matched |-> 1, err |-> NoErr]
    ELSE [store |-> st, matched |-> 0, err |-> NoErr]

\* mutant: the filter compares with the incremented version
UpdateOne_FilterOnNewVersion(st, order, fault) ==
    IF fault THEN [store |-> st, matched |-> 0, err |-> StatusInternalServerError]
    ELSE IF st[order.ID] # NoDoc /\ st[order.ID].version = order.Version
         THEN [store |-> [st EXCEPT ![order.ID] =
                             [@ EXCEPT !.status = order.Status,
                                       !.updated_at = order.UpdatedAt,
                                       !.version = order.Version]],
               matched |-> 1, err |-> NoErr]
    ELSE [store |-> st, matched |-> 0, err |-> NoErr]

\* mutant: a driver error is taken for a clean zero match
UpdateOne_ErrorDropped(st, order, fault) ==
    IF fault THEN [store |-> st, matched |-> 1, err |-> NoErr]
    ELSE IF st[order.ID] # NoDoc /\ st[order.ID].version = order.Version - 1
         THEN [store |-> [st EXCEPT ![order.ID] =
                             [@ EXCEPT !.status = order.Status,
                                       !.updated_at = order.UpdatedAt,
                                       !.version = order.Version]],
               matched |-> 1, err |-> NoErr]
    ELSE [store |-> st, matched |-> 0, err |-> NoErr]

\* mutant: the version condition is checked against every document of the
\* collection, as if the version were a collection-wide counter
UpdateOne_CollectionVersion(st, order, fault) ==
    IF fault THEN [store |-> st, matched |-> 0, err |-> StatusInternalServerError]
    ELSE IF /\ st[order.ID] # NoDoc /\ st[order.ID].version = order.Version - 1
            /\ \A j \in DOMAIN st : st[j] = NoDoc \/ st[j].version <= order.Version - 1
         THEN [store |-> [st EXCEPT ![order.ID] =
                             [@ EXCEPT !.status = order.Status,
                                       !.updated_at = order.UpdatedAt,
                                       !.version = order.Version]],
               matched |-> 1, err |-> NoErr]
    ELSE [store |-> st, matched |-> 0, err |-> NoErr]

\* mutant: $set also stamps the creation time
UpdateOne_SetsCreatedAt(st, order, fault) ==
    IF fault THEN [store |-> st, matched |-> 0, err |-> StatusInternalServerError]
    ELSE IF st[order.ID] # NoDoc /\ st[order.ID].version = order.Version - 1
         THEN [store |-> [st EXCEPT ![order.ID] =
                             [@ EXCEPT !.status = order.Status,
                                       !.updated_at = order.UpdatedAt,
                                       !.createdAt = order.UpdatedAt,
                                       !.version = order.Version]],
               matched |-> 1, err |-> NoErr]
    ELSE [store |-> st, matched |-> 0, err |-> NoErr]

\* the UpdateOne of OrderRepository.Update: filter {_id, version-1},
\* $set {status, updated_at, version}; matched is result.MatchedCount
UpdateOne(st, order, fault) ==
    IF fault THEN [store |-> st, matched |-> 0, err |-> StatusInternalServerError]
    ELSE IF st[order.ID] # NoDoc /\ st[order.ID].version = order.Version - 1
         THEN [store |-> [st EXCEPT ![order.ID] =
                             [@ EXCEPT !.status = order.Status,
                                       !.updated_at = order.UpdatedAt,
                                       !.version = order.Version]],
               matched |-> 1, err |-> NoErr]
    ELSE [store |-> st, matched |-> 0, err |-> NoErr]

\* the MatchedCount == 0 branch of OrderRepository.Update: r.FindByID decides
\* between "order not found" and "version conflict"
UpdateZeroMatch(st, id, fault) ==
    IF FindByID(st, id, fault).err # NoErr THEN StatusNotFound
    ELSE StatusConflict

(* ---------------------- redis cache repository ------------------------ *)
\* json.Marshal of models.Order by its json tags
ToJSON(o) ==
    [orderId |-> o.ID, customerId |-> o.CustomerID, status |-> o.Status,
     items |-> o.Items, totalAmount |-> o.TotalAmount, version |-> o.Version,
     createdAt |-> o.CreatedAt, updatedAt |-> o.UpdatedAt]

\* json.Unmarshal into models.Order
FromJSON(b) ==
    [ID |-> b.orderId, CustomerID |-> b.customerId, Status |-> b.status,
     Items |-> b.items, TotalAmount |-> b.totalAmount, Version |-> b.version,
     CreatedAt |-> b.createdAt, UpdatedAt |-> b.updatedAt]

\* CacheRepository.GetOrder: (nil, nil) on redis.Nil, an error on any other
\* redis failure
GetOrder(c, orderID, fault) ==
    IF fault THEN [order |-> NoOrder, err |-> StatusNotFound]
    ELSE IF c[orderID] = NoBlob THEN [order |-> NoOrder, err |-> NoErr]
    ELSE [order |-> FromJSON(c[orderID]), err |-> NoErr]

\* CacheRepository.SetOrder: SET key blob with the default TTL
SetOrder(c, order, fault) ==
    IF fault THEN [cache |-> c, err |-> StatusInternalServerError]
    ELSE [cache |-> [c EXCEPT ![order.ID] = ToJSON(order)], err |-> NoErr]

\* mutant: the DEL goes to another key and reports success
InvalidateOrder_WrongKey(c, orderID, fault) ==
    IF fault THEN [cache |-> c, err |-> StatusInternalServerError]
    ELSE [cache |-> c, err |-> NoErr]

\* mutant: a DEL that removed no key is reported as an error
InvalidateOrder_AbsentIsError(c, orderID, fault) ==
    IF fault THEN [cache |-> c, err |-> StatusInternalServerError]
    ELSE IF c[orderID] = NoBlob THEN [cache |-> c, err |-> StatusNotFound]
    ELSE [cache |-> [c EXCEPT ![orderID] = NoBlob], err |-> NoErr]

\* CacheRepository.InvalidateOrder: DEL key
InvalidateOrder(c, orderID, fault) ==
    IF fault THEN [cache |-> c, err |-> StatusInternalServerError]
    ELSE [cache |-> [c EXCEPT ![orderID] = NoBlob], err |-> NoErr]

(* ---------------- internal/messages/kafka/producer.go ----------------- *)
\* Producer.PublishOrderEvent: one message keyed by event.OrderID; fault is
\* json.Marshal or WriteMessages (after its retries) failing
PublishOrderEvent(h, event, fault) ==
    [handed |-> [h EXCEPT ![event.OrderID] = Append(@, event)],
     err |-> IF fault THEN StatusInternalServerError ELSE NoErr]

(* ------------------- internal/services/order.go ----------------------- *)
\* a goroutine that serves no request
IdleProc ==
    [pc |-> "idle", op |-> "", orderID |-> 0, newStatus |-> "",
     customerID |-> "", items |-> <<>>,
     order |-> NoOrder, oldStatus |-> "", calls |-> <<>>,
     domErr |-> ErrNone, updErr |-> NoErr, invErr |-> NoErr, pubErr |-> NoErr,
     getErr |-> NoErr, setErr |-> NoErr, listErr |-> NoErr,
     floor |-> 0, lateHit |-> FALSE, raced |-> {}, result |-> NoResult]

\* return (order, nil)
Success(o) == [status |-> StatusOK, order |-> o]
\* return (nil, &ServiceError{Status: code})
Failure(code) == [status |-> code, order |-> NoOrder]

hist == <<commits, succ, lateWrite, age>>

Init ==
    /\ store = [i \in OrderIDs |-> NoDoc]
    /\ cache = [i \in OrderIDs |-> NoBlob]
    /\ handed = [i \in OrderIDs |-> <<>>]
    /\ proc = [p \in Procs |-> IdleProc]
    /\ commits = [i \in OrderIDs |-> <<>>]
    /\ succ = [i \in OrderIDs |-> 0]
    /\ lateWrite = [i \in OrderIDs |-> FALSE]
    /\ age = [i \in OrderIDs |-> 0]

\* mutant: a created order is written through to the cache
CreateOrder_WriteThrough(p) ==
    /\ proc[p].pc = "idle"
    /\ \E customerID \in CustomerInputs, items \in ItemInputs,
          id \in OrderIDs, fault \in BOOLEAN :
          LET n == NewOrder(customerID, items, id, NowAtCreate)
              r == Create(store, n.order, fault)
          IN IF n.err # ErrNone
             THEN /\ proc' = [proc EXCEPT ![p] =
                        [IdleProc EXCEPT !.pc = "ret", !.op = "CreateOrder",
                                         !.customerID = customerID, !.items = items,
                                         !.domErr = n.err,
                                         !.result = Failure(StatusBadRequest)]]
                  /\ store' = store
                  /\ cache' = cache
             ELSE /\ store' = r.store
                  /\ cache' = IF r.err = NoErr
                              THEN SetOrder(cache, n.order, FALSE).cache
                              ELSE cache
                  /\ proc' = [proc EXCEPT ![p] =
                        [IdleProc EXCEPT !.pc = "ret", !.op = "CreateOrder",
                                         !.customerID = customerID, !.items = items,
                                         !.calls = <<"Create">>,
                                         !.result = IF r.err # NoErr
                                                    THEN Failure(r.err)
                                                    ELSE Success(n.order)]]
    /\ UNCHANGED <<handed, hist>>

\* CreateOrder: models.NewOrder, then orderRepo.Create
CreateOrder(p) ==
    /\ proc[p].pc = "idle"
    /\ \E customerID \in CustomerInputs, items \in ItemInputs,
          id \in OrderIDs, fault \in BOOLEAN :
          LET n == NewOrder(customerID, items, id, NowAtCreate)
              r == Create(store, n.order, fault)
          IN IF n.err # ErrNone
             THEN /\ proc' = [proc EXCEPT ![p] =
                        [IdleProc EXCEPT !.pc = "ret", !.op = "CreateOrder",
                                         !.customerID = customerID, !.items = items,
                                         !.domErr = n.err,
                                         !.result = Failure(StatusBadRequest)]]
                  /\ store' = store
             ELSE /\ store' = r.store
                  /\ proc' = [proc EXCEPT ![p] =
                        [IdleProc EXCEPT !.pc = "ret", !.op = "CreateOrder",
                                         !.customerID = customerID, !.items = items,
                                         !.calls = <<"Create">>,
                                         !.result = IF r.err # NoErr
                                                    THEN Failure(r.err)
                                                    ELSE Success(n.order)]]
    /\ UNCHANGED <<cache, handed, hist>>

\* page and limit values the handler passes on
PageInputs == {1, 2}
LimitInputs == {1, 2}

\* mutant: a store failure is answered with an empty first page
ListOrders_FailureSwallowed(p) ==
    /\ proc[p].pc = "idle"
    /\ \E status \in {"", StatusNew, StatusCancelled}, customerID \in {"", CustomerA},
          page \in PageInputs, limit \in LimitInputs, fault \in BOOLEAN :
          LET r == FindWithFilters(store, status, customerID, page, limit, fault)
          IN proc' = [proc EXCEPT ![p] =
                 [IdleProc EXCEPT !.pc = "ret", !.op = "ListOrders",
                                  !.calls = <<"FindWithFilters">>,
                                  !.listErr = r.err,
                                  !.result = [status |-> StatusOK, orders |-> r.orders,
                                              total |-> r.total]]]
    /\ UNCHANGED <<store, cache, handed, hist>>

\* ListOrders: the filters map, then orderRepo.FindWithFilters
ListOrders(p) ==
    /\ proc[p].pc = "idle"
    /\ \E status \in {"", StatusNew, StatusCancelled}, customerID \in {"", CustomerA},
          page \in PageInputs, limit \in LimitInputs, fault \in BOOLEAN :
          LET r == FindWithFilters(store, status, customerID, page, limit, fault)
          IN proc' = [proc EXCEPT ![p] =
                 [IdleProc EXCEPT !.pc = "ret", !.op = "ListOrders",
                                  !.calls = <<"FindWithFilters">>,
                                  !.listErr = r.err,
                                  !.result = IF r.err # NoErr
                                             THEN [status |-> r.err, orders |-> <<>>, total |-> 0]
                                             ELSE [status |-> StatusOK, orders |-> r.orders,
                                                   total |-> r.total]]]
    /\ UNCHANGED <<store, cache, handed, hist>>

\* history: a request has returned success for a transition of order i after
\* a successful cache invalidation
AckedBy(q, i) ==
    /\ proc[q].pc = "ret" /\ proc[q].op = "UpdateOrderStatus"
    /\ proc[q].orderID = i
    /\ proc[q].result.status = StatusOK /\ proc[q].invErr = NoErr

\* history: the latest version of order i that such a request has returned,
\* 0 when there is none
Acked(i) ==
    IF \E q \in Procs : AckedBy(q, i)
    THEN CHOOSE v \in 1..3 : /\ \E q \in Procs : AckedBy(q, i) /\ proc[q].result.order.Version = v
                             /\ \A q \in Procs : AckedBy(q, i) => proc[q].result.order.Version <= v
    ELSE 0

\* mutant: a cache hit is not trusted, the store is read all the same
GetOrderByID_GetOrder_ReadThrough(p) ==
    /\ proc[p].pc = "idle"
    /\ \E orderID \in DOMAIN store, fault \in BOOLEAN :
          LET r == GetOrder(cache, orderID, fault)
              c == [IdleProc EXCEPT !.op = "GetOrderByID", !.orderID = orderID,
                                    !.calls = <<"GetOrder">>,
                                    !.getErr = r.err,
                                    !.floor = Acked(orderID)]
          IN proc' = [proc EXCEPT ![p] = [c EXCEPT !.pc = "get_find"]]
    /\ UNCHANGED <<store, cache, handed, hist>>

\* mutant: a hit restarts the time to live of the entry it read
GetOrderByID_GetOrder_Touch(p) ==
    /\ proc[p].pc = "idle"
    /\ \E orderID \in DOMAIN store, fault \in BOOLEAN :
          LET r == GetOrder(cache, orderID, fault)
              c == [IdleProc EXCEPT !.op = "GetOrderByID", !.orderID = orderID,
                                    !.calls = <<"GetOrder">>,
                                    !.getErr = r.err,
                                    !.floor = Acked(orderID)]
          IN /\ proc' = [proc EXCEPT ![p] =
                    IF r.err = NoErr /\ r.order # NoOrder
                    THEN [c EXCEPT !.pc = "ret", !.order = r.order,
                                   !.lateHit = lateWrite[orderID],
                                   !.result = Success(r.order)]
                    ELSE [c EXCEPT !.pc = "get_find"]]
             /\ age' = IF r.err = NoErr /\ r.order # NoOrder
                       THEN [age EXCEPT ![orderID] = 0]
                       ELSE age
    /\ UNCHANGED <<store, cache, handed, commits, succ, lateWrite>>

\* GetOrderByID, first step: cacheRepo.GetOrder; a hit returns at once
GetOrderByID_GetOrder(p) ==
    /\ proc[p].pc = "idle"
    /\ \E orderID \in DOMAIN store, fault \in BOOLEAN :
          LET r == GetOrder(cache, orderID, fault)
              c == [IdleProc EXCEPT !.op = "GetOrderByID", !.orderID = orderID,
                                    !.calls = <<"GetOrder">>,
                                    !.getErr = r.err,
                                    !.floor = Acked(orderID)]
          IN proc' = [proc EXCEPT ![p] =
                 IF r.err = NoErr /\ r.order # NoOrder
                 THEN [c EXCEPT !.pc = "ret", !.order = r.order,
                                !.lateHit = lateWrite[orderID],
                                !.result = Success(r.order)]
                 ELSE [c EXCEPT !.pc = "get_find"]]
    /\ UNCHANGED <<store, cache, handed, hist>>

\* GetOrderByID, after a miss or a cache error: orderRepo.FindByID
GetOrderByID_FindByID(p) ==
    /\ proc[p].pc = "get_find"
    /\ \E fault \in BOOLEAN :
          LET r == FindByID(store, proc[p].orderID, fault)
              c == [proc[p] EXCEPT !.calls = Append(@, "FindByID")]
          IN proc' = [proc EXCEPT ![p] =
                 IF r.err # NoErr
                 THEN [c EXCEPT !.pc = "ret", !.result = Failure(r.err)]
                 ELSE [c EXCEPT !.pc = "get_set", !.order = r.order]]
    /\ UNCHANGED <<store, cache, handed, hist>>

\* mutant: a failed cache write fails the read
GetOrderByID_SetOrder_Surfaced(p) ==
    /\ proc[p].pc = "get_set"
    /\ \E fault \in BOOLEAN :
          LET o == proc[p].order
              r == SetOrder(cache, o, fault)
          IN /\ cache' = r.cache
             /\ lateWrite' = IF r.err = NoErr
                             THEN [lateWrite EXCEPT ![o.ID] = o.Version < store[o.ID].version]
                             ELSE lateWrite
             /\ age' = IF r.err = NoErr THEN [age EXCEPT ![o.ID] = 0] ELSE age
             /\ proc' = [proc EXCEPT ![p] =
                    [@ EXCEPT !.pc = "ret", !.calls = Append(@, "SetOrder"),
                              !.setErr = r.err,
                              !.result = IF r.err # NoErr THEN Failure(r.err)
                                         ELSE Success(o)]]
    /\ UNCHANGED <<store, handed, commits, succ>>

\* GetOrderByID, last step: cacheRepo.SetOrder, whose error is only logged
GetOrderByID_SetOrder(p) ==
    /\ proc[p].pc = "get_set"
    /\ \E fault \in BOOLEAN :
          LET o == proc[p].order
              r == SetOrder(cache, o, fault)
          IN /\ cache' = r.cache
             /\ lateWrite' = IF r.err = NoErr
                             THEN [lateWrite EXCEPT ![o.ID] = o.Version < store[o.ID].version]
                             ELSE lateWrite
             /\ age' = IF r.err = NoErr THEN [age EXCEPT ![o.ID] = 0] ELSE age
             /\ proc' = [proc EXCEPT ![p] =
                    [@ EXCEPT !.pc = "ret", !.calls = Append(@, "SetOrder"),
                              !.setErr = r.err,
                              !.result = Success(o)]]
    /\ UNCHANGED <<store, handed, commits, succ>>


\* mutant: the error of order.UpdateStatus is dropped
UpdateOrderStatus_FindByID_Unchecked(p) ==
    /\ proc[p].pc = "idle"
    /\ \E orderID \in DOMAIN store, newStatus \in StatusInputs, fault \in BOOLEAN :
          LET r == FindByID(store, orderID, fault)
              u == UpdateStatus(r.order, newStatus, NowAtUpdate(r.order))
              c == [IdleProc EXCEPT !.op = "UpdateOrderStatus", !.orderID = orderID,
                                    !.newStatus = newStatus,
                                    !.calls = <<"FindByID">>]
          IN proc' = [proc EXCEPT ![p] =
                 IF r.err # NoErr
                 THEN [c EXCEPT !.pc = "ret", !.result = Failure(r.err)]
                 ELSE [c EXCEPT !.pc = "upd_update", !.order = u.order,
                                !.domErr = u.err,
                                !.oldStatus = r.order.Status]]
    /\ UNCHANGED <<store, cache, handed, hist>>

\* mutant: the cache entry is dropped even when the order could not be read
UpdateOrderStatus_FindByID_DropsEntry(p) ==
    /\ proc[p].pc = "idle"
    /\ \E orderID \in DOMAIN store, newStatus \in StatusInputs, fault \in BOOLEAN :
          LET r == FindByID(store, orderID, fault)
              u == UpdateStatus(r.order, newStatus, NowAtUpdate(r.order))
              c == [IdleProc EXCEPT !.op = "UpdateOrderStatus", !.orderID = orderID,
                                    !.newStatus = newStatus,
                                    !.calls = <<"FindByID">>]
          IN /\ proc' = [proc EXCEPT ![p] =
                    IF r.err # NoErr
                    THEN [c EXCEPT !.pc = "ret", !.result = Failure(r.err)]
                    ELSE IF u.err # ErrNone
                    THEN [c EXCEPT !.pc = "ret", !.order = u.order,
                                   !.oldStatus = r.order.Status,
                                   !.domErr = u.err,
                                   !.result = Failure(StatusBadRequest)]
                    ELSE [c EXCEPT !.pc = "upd_update", !.order = u.order,
                                   !.oldStatus = r.order.Status]]
             /\ cache' = IF r.err # NoErr
                         THEN InvalidateOrder(cache, orderID, FALSE).cache
                         ELSE cache
    /\ UNCHANGED <<store, handed, hist>>

\* UpdateOrderStatus, first step: orderRepo.FindByID, then order.UpdateStatus
\* on the aggregate that was read
UpdateOrderStatus_FindByID(p) ==
    /\ proc[p].pc = "idle"
    /\ \E orderID \in DOMAIN store, newStatus \in StatusInputs, fault \in BOOLEAN :
          LET r == FindByID(store, orderID, fault)
              u == UpdateStatus(r.order, newStatus, NowAtUpdate(r.order))
              c == [IdleProc EXCEPT !.op = "UpdateOrderStatus", !.orderID = orderID,
                                    !.newStatus = newStatus,
                                    !.calls = <<"FindByID">>]
          IN proc' = [proc EXCEPT ![p] =
                 IF r.err # NoErr
                 THEN [c EXCEPT !.pc = "ret", !.result = Failure(r.err)]
                 ELSE IF u.err # ErrNone
                 THEN [c EXCEPT !.pc = "ret", !.order = u.order,
                                !.oldStatus = r.order.Status,
                                !.domErr = u.err,
                                !.result = Failure(StatusBadRequest)]
                 ELSE [c EXCEPT !.pc = "upd_update", !.order = u.order,
                                !.oldStatus = r.order.Status]]
    /\ UNCHANGED <<store, cache, handed, hist>>

\* history: the requests that have read the same version of the same order
\* as p and have not yet sent their write
Rivals(p) ==
    {q \in Procs \ {p} : /\ proc[q].pc = "upd_update"
                          /\ proc[q].orderID = proc[p].orderID
                          /\ proc[q].order.Version = proc[p].order.Version}

\* mutant: the aggregate is put into the cache before the store has
\* accepted the write
UpdateOrderStatus_Update_CacheFirst(p) ==
    /\ proc[p].pc = "upd_update"
    /\ \E fault \in BOOLEAN :
          LET o == proc[p].order
              r == UpdateOne(store, o, fault)
              c == [proc[p] EXCEPT !.calls = Append(@, "Update"), !.raced = Rivals(p)]
          IN /\ store' = r.store
             /\ cache' = SetOrder(cache, o, FALSE).cache
             /\ proc' = [proc EXCEPT ![p] =
                    IF r.err # NoErr
                    THEN [c EXCEPT !.pc = "ret", !.updErr = r.err,
                                   !.result = Failure(r.err)]
                    ELSE IF r.matched = 0
                    THEN [c EXCEPT !.pc = "upd_lookup"]
                    ELSE [c EXCEPT !.pc = "upd_invalidate"]]
             /\ commits' = IF r.store # store
                           THEN [commits EXCEPT ![o.ID] =
                                    Append(@, [old |-> store[o.ID].status,
                                               new |-> r.store[o.ID].status,
                                               version |-> r.store[o.ID].version,
                                               by |-> p])]
                           ELSE commits
    /\ UNCHANGED <<handed, succ, lateWrite, age>>

\* UpdateOrderStatus, second step: the UpdateOne of orderRepo.Update
UpdateOrderStatus_Update(p) ==
    /\ proc[p].pc = "upd_update"
    /\ \E fault \in BOOLEAN :
          LET o == proc[p].order
              r == UpdateOne(store, o, fault)
              c == [proc[p] EXCEPT !.calls = Append(@, "Update"), !.raced = Rivals(p)]
          IN /\ store' = r.store
             /\ proc' = [proc EXCEPT ![p] =
                    IF r.err # NoErr
                    THEN [c EXCEPT !.pc = "ret", !.updErr = r.err,
                                   !.result = Failure(r.err)]
                    ELSE IF r.matched = 0
                    THEN [c EXCEPT !.pc = "upd_lookup"]
                    ELSE [c EXCEPT !.pc = "upd_invalidate"]]
             /\ commits' = IF r.store # store
                           THEN [commits EXCEPT ![o.ID] =
                                    Append(@, [old |-> store[o.ID].status,
                                               new |-> r.store[o.ID].status,
                                               version |-> r.store[o.ID].version,
                                               by |-> p])]
                           ELSE commits
    /\ UNCHANGED <<cache, handed, succ, lateWrite, age>>

\* mutant: a version conflict is logged and the request carries on
Update_FindByID_ConflictLogged(p) ==
    /\ proc[p].pc = "upd_lookup"
    /\ \E fault \in BOOLEAN :
          LET code == UpdateZeroMatch(store, proc[p].order.ID, fault)
          IN proc' = [proc EXCEPT ![p] =
                 IF code = StatusConflict
                 THEN [@ EXCEPT !.pc = "upd_invalidate", !.updErr = code]
                 ELSE [@ EXCEPT !.pc = "ret", !.updErr = code, !.result = Failure(code)]]
    /\ UNCHANGED <<store, cache, handed, hist>>

\* mutant: after a version conflict the write is sent again
Update_FindByID_Retry(p) ==
    /\ proc[p].pc = "upd_lookup"
    /\ \E fault \in BOOLEAN :
          LET code == UpdateZeroMatch(store, proc[p].order.ID, fault)
          IN proc' = [proc EXCEPT ![p] =
                 IF code = StatusConflict
                 THEN [@ EXCEPT !.pc = "upd_update"]
                 ELSE [@ EXCEPT !.pc = "ret", !.updErr = code, !.result = Failure(code)]]
    /\ UNCHANGED <<store, cache, handed, hist>>

\* orderRepo.Update after MatchedCount == 0: the existence lookup
Update_FindByID(p) ==
    /\ proc[p].pc = "upd_lookup"
    /\ \E fault \in BOOLEAN :
          LET code == UpdateZeroMatch(store, proc[p].order.ID, fault)
          IN proc' = [proc EXCEPT ![p] =
                 [@ EXCEPT !.pc = "ret", !.updErr = code, !.result = Failure(code)]]
    /\ UNCHANGED <<store, cache, handed, hist>>

\* UpdateOrderStatus, third step: cacheRepo.InvalidateOrder, error only logged
UpdateOrderStatus_InvalidateOrder(p) ==
    /\ proc[p].pc = "upd_invalidate"
    /\ \E fault \in BOOLEAN :
          LET r == InvalidateOrder(cache, proc[p].orderID, fault)
          IN /\ cache' = r.cache
             /\ lateWrite' = IF r.err = NoErr
                             THEN [lateWrite EXCEPT ![proc[p].orderID] = FALSE]
                             ELSE lateWrite
             /\ age' = IF r.err = NoErr THEN [age EXCEPT ![proc[p].orderID] = 0] ELSE age
             /\ proc' = [proc EXCEPT ![p] =
                    [@ EXCEPT !.pc = "upd_publish", !.invErr = r.err,
                              !.calls = Append(@, "InvalidateOrder")]]
    /\ UNCHANGED <<store, handed, commits, succ>>

\* mutant: a publish error is returned to the caller
UpdateOrderStatus_PublishOrderEvent_Surfaced(p) ==
    /\ proc[p].pc = "upd_publish"
    /\ \E fault \in BOOLEAN :
          LET o == proc[p].order
              event == NewOrderStatusChangedEvent(o.ID, o.CustomerID,
                                                  proc[p].oldStatus, proc[p].newStatus)
              r == PublishOrderEvent(handed, event, fault)
          IN /\ handed' = r.handed
             /\ proc' = [proc EXCEPT ![p] =
                    [@ EXCEPT !.pc = "ret", !.pubErr = r.err,
                              !.calls = Append(@, "PublishOrderEvent"),
                              !.result = IF r.err # NoErr THEN Failure(r.err)
                                         ELSE Success(o)]]
             /\ succ' = IF r.err # NoErr THEN succ ELSE [succ EXCEPT ![o.ID] = @ + 1]
    /\ UNCHANGED <<store, cache, commits, lateWrite, age>>

\* UpdateOrderStatus, last step: eventPublisher.PublishOrderEvent, error only
\* logged, then return order, nil
UpdateOrderStatus_PublishOrderEvent(p) ==
    /\ proc[p].pc = "upd_publish"
    /\ \E fault \in BOOLEAN :
          LET o == proc[p].order
              event == NewOrderStatusChangedEvent(o.ID, o.CustomerID,
                                                  proc[p].oldStatus, proc[p].newStatus)
              r == PublishOrderEvent(handed, event, fault)
          IN /\ handed' = r.handed
             /\ proc' = [proc EXCEPT ![p] =
                    [@ EXCEPT !.pc = "ret", !.pubErr = r.err,
                              !.calls = Append(@, "PublishOrderEvent"),
                              !.result = Success(o)]]
             /\ succ' = [succ EXCEPT ![o.ID] = @ + 1]
    /\ UNCHANGED <<store, cache, commits, lateWrite, age>>

\* the handler has written the response; the goroutine ends
Return(p) ==
    /\ proc[p].pc = "ret"
    /\ proc' = [proc EXCEPT ![p] = IdleProc]
    /\ UNCHANGED <<store, cache, handed, hist>>

\* Redis drops the entry of order i when its TTL has elapsed
Expire(i) ==
    /\ cache[i] # NoBlob
    /\ cache' = [cache EXCEPT ![i] = NoBlob]
    /\ lateWrite' = [lateWrite EXCEPT ![i] = FALSE]
    /\ age' = [age EXCEPT ![i] = 0]
    /\ UNCHANGED <<store, handed, proc, commits, succ>>

Next ==
    \/ \E p \in Procs : CreateOrder(p)
    \/ \E p \in Procs : ListOrders(p)
    \/ \E p \in Procs : GetOrderByID_GetOrder(p)
    \/ \E p \in Procs : GetOrderByID_FindByID(p)
    \/ \E p \in Procs : GetOrderByID_SetOrder(p)
    \/ \E p \in Procs : UpdateOrderStatus_FindByID(p)
    \/ \E p \in Procs : UpdateOrderStatus_Update(p)
    \/ \E p \in Procs : Update_FindByID(p)
    \/ \E p \in Procs : UpdateOrderStatus_InvalidateOrder(p)
    \/ \E p \in Procs : UpdateOrderStatus_PublishOrderEvent(p)
    \/ \E p \in Procs : Return(p)
    \/ \E i \in OrderIDs : Expire(i)

Spec == Init /\ [][Next]_vars

TypeOK ==
    /\ \A i \in OrderIDs : store[i] = NoDoc \/ store[i].status \in Statuses
    /\ \A p \in Procs : proc[p].pc \in {"idle", "get_find", "get_set", "upd_update",
                                        "upd_lookup", "upd_invalidate", "upd_publish", "ret"}


(* ----------------------------- properties ----------------------------- *)
\* the request of p is an UpdateOrderStatus whose target passed
\* order.UpdateStatus: proc[p].order is the aggregate with the new status
\* and the read version plus one
Built(p) ==
    /\ proc[p].op = "UpdateOrderStatus"
    /\ proc[p].pc = "upd_update" \/ Len(proc[p].calls) >= 2

\* orderRepo.Update has returned to the request of p
UpdateReturned(p) ==
    /\ Built(p)
    /\ proc[p].pc \in {"upd_invalidate", "upd_publish", "ret"}

\* the request of p has committed its transition and has not yet returned
Committing(p) == proc[p].pc \in {"upd_invalidate", "upd_publish"}

IsPrefix(s, t) == Len(s) <= Len(t) /\ \A k \in 1..Len(s) : s[k] = t[k]

\* the edges of the state machine drawn in the README
LegalEdges ==
    { <<StatusNew, StatusInProgress>>, <<StatusNew, StatusCancelled>>,
      <<StatusInProgress, StatusDelivered>>, <<StatusInProgress, StatusCancelled>> }

Terminal == {StatusDelivered, StatusCancelled}

\* C8: over the four statuses CanTransitionTo is true exactly on the four
\* legal edges; and a request for a known target gets past the validation of
\* UpdateOrderStatus exactly when (status read, target) is one of them.
C8_CanTransitionTable ==
    /\ \A s \in Statuses, t \in Statuses :
          CanTransitionTo(s, t) <=> <<s, t>> \in LegalEdges
    /\ \A p \in Procs :
          ( /\ proc[p].op = "UpdateOrderStatus"
            /\ proc[p].order # NoOrder
            /\ proc[p].newStatus \in Statuses )
          => (Built(p) <=> <<proc[p].oldStatus, proc[p].newStatus>> \in LegalEdges)

\* C8 witness: one request was refused a transition out of a terminal status
\* while another holds an accepted transition out of NEW.
C8_Witness ==
    \E p, q \in Procs :
       /\ proc[p].op = "UpdateOrderStatus" /\ proc[p].pc = "ret"
       /\ proc[p].oldStatus \in Terminal /\ proc[p].newStatus = StatusNew
       /\ proc[p].result.status = StatusBadRequest
       /\ Built(q) /\ proc[q].oldStatus = StatusNew

\* the collaborator calls of UpdateOrderStatus, in the order of the source
UpdateCallOrder == <<"FindByID", "Update", "InvalidateOrder", "PublishOrderEvent">>

\* C6: the collaborator calls made by an UpdateOrderStatus invocation are a
\* prefix of FindByID, Update, InvalidateOrder, PublishOrderEvent: each at
\* most once, in that order, and no second Update after a failed one.
C6_CallsArePrefix ==
    \A p \in Procs :
       proc[p].op = "UpdateOrderStatus" => IsPrefix(proc[p].calls, UpdateCallOrder)

\* C6 witness: one invocation made all four calls and another stopped after
\* an Update that returned a version conflict.
C6_Witness ==
    \E p, q \in Procs :
       /\ proc[p].op = "UpdateOrderStatus" /\ proc[p].calls = UpdateCallOrder
       /\ proc[q].op = "UpdateOrderStatus" /\ proc[q].pc = "ret"
       /\ proc[q].updErr = StatusConflict
       /\ proc[q].calls = <<"FindByID", "Update">>

\* C9: once the stored status of an order is DELIVERED or CANCELLED no step of
\* any operation changes its stored status or version.
C9_TerminalIsFinal ==
    [][ \A i \in OrderIDs :
           (store[i] # NoDoc /\ store[i].status \in Terminal)
           => /\ store'[i] # NoDoc
              /\ store'[i].status = store[i].status
              /\ store'[i].version = store[i].version ]_vars

\* C9 witness: a request that read the order before it became terminal has
\* sent its write against the terminal record and was turned away.
C9_Witness ==
    \E p \in Procs :
       /\ Built(p) /\ proc[p].pc = "upd_lookup"
       /\ store[proc[p].orderID].status \in Terminal
       /\ proc[p].newStatus # store[proc[p].orderID].status

\* C10: the stored version of an order starts at 1, never decreases, and
\* equals 1 plus the number of UpdateOrderStatus calls on the order that
\* returned success or have committed and are about to.
C10_VersionCountsTransitions ==
    /\ [](\A i \in OrderIDs :
            store[i] # NoDoc =>
               store[i].version =
                  1 + succ[i] + Cardinality({p \in Procs : Committing(p) /\ proc[p].orderID = i}))
    /\ [][ \A i \in OrderIDs :
              /\ (store[i] = NoDoc /\ store'[i] # NoDoc) => store'[i].version = 1
              /\ store[i] # NoDoc =>
                    /\ store'[i] # NoDoc
                    /\ store'[i].version \in {store[i].version, store[i].version + 1} ]_vars

\* C10 witness: an order on which two transitions have returned success.
C10_Witness ==
    \E i \in OrderIDs : store[i] # NoDoc /\ store[i].version = 3 /\ succ[i] = 2


\* the record the conditional write of the request of p is aimed at holds
\* the version the request read
FilterMatches(p) ==
    /\ store[proc[p].order.ID] # NoDoc
    /\ store[proc[p].order.ID].version = proc[p].order.Version - 1

\* the step is the UpdateOne round trip of the request of p
UpdateOneStep(p) == proc[p].pc = "upd_update" /\ proc'[p].pc # "upd_update"

\* after the step orderRepo.Update of p returns, or is bound to return, an error
UpdateFailsNext(p) == proc'[p].pc = "upd_lookup" \/ proc'[p].updErr # NoErr

\* C3 as stated: Update changes the stored record if and only if the record
\* holds version == order.version - 1, then sets status and version; in
\* every other case the record is unchanged and an error is returned.
C3_UpdateIffVersionMatches ==
    [][ \A p \in Procs : UpdateOneStep(p) =>
           LET o == proc[p].order IN
           /\ (store'[o.ID] # store[o.ID]) <=> FilterMatches(p)
           /\ FilterMatches(p) => /\ store'[o.ID].status = o.Status
                                  /\ store'[o.ID].version = o.Version
           /\ ~FilterMatches(p) => store'[o.ID] = store[o.ID] /\ UpdateFailsNext(p) ]_vars

\* C3 amended: Update changes the stored record only if the record holds
\* version == order.version - 1, and always then unless the write itself
\* fails with a store fault; a change sets status and version to the order's
\* values and returns no error, no other record is touched, and whenever the
\* record is left unchanged an error is returned (404 or 409 after the
\* existence lookup, 500 after a fault).
C3_UpdateOnlyIfVersionMatches ==
    [][ \A p \in Procs :
          /\ UpdateOneStep(p) =>
               LET o == proc[p].order IN
               /\ (store'[o.ID] # store[o.ID]) =>
                     /\ FilterMatches(p)
                     /\ store'[o.ID].status = o.Status
                     /\ store'[o.ID].version = o.Version
                     /\ proc'[p].pc = "upd_invalidate" /\ proc'[p].updErr = NoErr
               /\ (FilterMatches(p) /\ proc'[p].updErr # StatusInternalServerError)
                     => store'[o.ID] # store[o.ID]
               /\ (store'[o.ID] = store[o.ID]) => UpdateFailsNext(p)
               /\ \A j \in OrderIDs \ {o.ID} : store'[j] = store[j]
          /\ (proc[p].pc = "upd_lookup" /\ proc'[p].pc # "upd_lookup") =>
               /\ store' = store
               /\ proc'[p].pc = "ret"
               /\ proc'[p].updErr \in {StatusNotFound, StatusConflict} ]_vars

\* C3 witness: the write of one request matched and changed the record, the
\* write of another request for the same order matched nothing.
C3_Witness ==
    \E p, q \in Procs :
       /\ proc[p].pc = "upd_invalidate" /\ proc[q].pc = "upd_lookup"
       /\ proc[p].orderID = proc[q].orderID
       /\ store[proc[p].orderID].status = proc[p].newStatus
       /\ store[proc[p].orderID].version = proc[p].order.Version

\* C5: once Store.Update has succeeded the request writes the store no more,
\* can only go on to the invalidation, the publish and the return, and
\* returns the updated order with no error whether or not the invalidation
\* and the publish failed.
C5_CommitIsNeverUndone ==
    /\ [][ \A p \in Procs : (Committing(p) /\ proc'[p] # proc[p]) =>
              /\ store' = store
              /\ proc'[p].pc \in {"upd_publish", "ret"}
              /\ proc'[p].pc = "ret" => proc'[p].result = Success(proc[p].order) ]_vars
    /\ [](\A p \in Procs :
            (proc[p].pc = "ret" /\ UpdateReturned(p) /\ proc[p].updErr = NoErr) =>
               /\ proc[p].result.status = StatusOK
               /\ proc[p].result.order.Status = proc[p].newStatus
               /\ proc[p].result.order.Version = commits[proc[p].orderID][proc[p].order.Version - 1].version
               /\ commits[proc[p].orderID][proc[p].order.Version - 1].new = proc[p].newStatus)

\* C5 witness: a request returned success although both the invalidation and
\* the publish failed, and the store holds its status and version.
C5_Witness ==
    \E p \in Procs :
       /\ proc[p].pc = "ret" /\ proc[p].op = "UpdateOrderStatus"
       /\ proc[p].result.status = StatusOK
       /\ proc[p].invErr # NoErr /\ proc[p].pubErr # NoErr
       /\ store[proc[p].orderID].status = proc[p].newStatus
       /\ store[proc[p].orderID].version = proc[p].result.order.Version


\* two different requests hold a transition of the same order built from the
\* same read version
SameBase(p, q) ==
    /\ p # q /\ Built(p) /\ Built(q)
    /\ proc[p].orderID = proc[q].orderID
    /\ proc[p].order.Version = proc[q].order.Version

\* both requests had read the same version of the order when the first of
\* them sent its write
Raced(p, q) == SameBase(p, q) /\ (q \in proc[p].raced \/ p \in proc[q].raced)

\* error codes of orderRepo.Update that only a store fault produces: a driver
\* error of UpdateOne, or a failed existence lookup of a record that exists
StoreFault == {StatusInternalServerError, StatusNotFound}

\* the transition that produced version v of order i is in the history
Committed(i, v) == v >= 2 /\ Len(commits[i]) >= v - 1

\* the number of writes that produced version v of order i
WritesOf(i, v) == Cardinality({k \in 1..Len(commits[i]) : commits[i][k].version = v})

\* C2 as stated: of two concurrent Store.Update calls built from the same base version
\* exactly one returns success and the other VersionConflict, and after both
\* the stored version is the base version plus one.
C2_ExactlyOneUpdateWins ==
    \A p, q \in Procs :
       (Raced(p, q) /\ UpdateReturned(p) /\ UpdateReturned(q)) =>
          /\ \/ proc[p].updErr = NoErr /\ proc[q].updErr = StatusConflict
             \/ proc[q].updErr = NoErr /\ proc[p].updErr = StatusConflict
          /\ store[proc[p].orderID].version = proc[p].order.Version

\* C2 amended: of two Store.Update calls built from the same base version N
\* at most one returns success; when neither meets a store fault exactly one
\* returns success and the other VersionConflict (both get VersionConflict
\* only if a third call wrote version N+1); version N+1 is written at most
\* once, by the call that returned success, and by nobody when both failed.
C2_AtMostOneUpdateWins ==
    \A p, q \in Procs :
       (Raced(p, q) /\ UpdateReturned(p) /\ UpdateReturned(q)) =>
          LET i == proc[p].orderID
              v == proc[p].order.Version
          IN /\ ~(proc[p].updErr = NoErr /\ proc[q].updErr = NoErr)
             /\ (proc[p].updErr \notin StoreFault /\ proc[q].updErr \notin StoreFault) =>
                   \/ proc[p].updErr = NoErr /\ proc[q].updErr = StatusConflict
                   \/ proc[q].updErr = NoErr /\ proc[p].updErr = StatusConflict
                   \/ /\ proc[p].updErr = StatusConflict /\ proc[q].updErr = StatusConflict
                      /\ Committed(i, v) /\ commits[i][v - 1].by \notin {p, q}
             /\ WritesOf(i, v) <= 1
             /\ proc[p].updErr = NoErr =>
                   /\ Committed(i, v) /\ commits[i][v - 1].by = p
                   /\ store[i].version >= v
             /\ (proc[p].updErr # NoErr /\ proc[q].updErr # NoErr) =>
                   \/ store[i].version = v - 1 /\ WritesOf(i, v) = 0
                   \/ Committed(i, v) /\ commits[i][v - 1].by \notin {p, q}

\* C2 witness: both calls have returned, one with success and one with
\* VersionConflict, and the stored version is the base version plus one.
C2_Witness ==
    \E p, q \in Procs :
       /\ Raced(p, q) /\ UpdateReturned(p) /\ UpdateReturned(q)
       /\ proc[p].updErr = NoErr /\ proc[q].updErr = StatusConflict
       /\ store[proc[p].orderID].version = proc[p].order.Version

\* both requests have returned from UpdateOrderStatus
BothReturned(p, q) == proc[p].pc = "ret" /\ proc[q].pc = "ret"

\* C1 as stated: of two UpdateOrderStatus calls that read the same version N
\* with legal targets exactly one returns success and the other 409; the
\* stored version is then N+1 and the stored status the winner's target.
C1_ExactlyOneTransitionWins ==
    \A p, q \in Procs :
       (Raced(p, q) /\ BothReturned(p, q)) =>
          \E w \in {p, q} :
             /\ proc[w].result.status = StatusOK
             /\ \A l \in {p, q} \ {w} : proc[l].result.status = StatusConflict
             /\ store[proc[w].orderID].version = proc[w].order.Version
             /\ store[proc[w].orderID].status = proc[w].newStatus

\* C1 amended: of two such calls at most one returns success; when no store
\* call of either fails with a store fault exactly one returns success and
\* the other 409 (both get 409 only if a third call committed first); the
\* step from version N to N+1 is then the successful call's transition, and
\* while no later transition is committed the store holds its target.
C1_AtMostOneTransitionWins ==
    \A p, q \in Procs :
       (Raced(p, q) /\ BothReturned(p, q)) =>
          LET i == proc[p].orderID
              v == proc[p].order.Version
          IN /\ ~(proc[p].result.status = StatusOK /\ proc[q].result.status = StatusOK)
             /\ (proc[p].result.status \notin StoreFault /\ proc[q].result.status \notin StoreFault) =>
                   \/ \E w \in {p, q} :
                         /\ proc[w].result.status = StatusOK
                         /\ \A l \in {p, q} \ {w} : proc[l].result.status = StatusConflict
                   \/ /\ \A l \in {p, q} : proc[l].result.status = StatusConflict
                      /\ Committed(i, v) /\ commits[i][v - 1].by \notin {p, q}
             /\ proc[p].result.status = StatusOK =>
                   /\ Committed(i, v)
                   /\ commits[i][v - 1] = [old |-> proc[p].oldStatus, new |-> proc[p].newStatus,
                                           version |-> v, by |-> p]
                   /\ store[i].version = v => store[i].status = proc[p].newStatus
                   /\ store[i].version = 1 + Len(commits[i])

\* C1 witness: two calls that read the same version with different legal
\* targets have both returned, one with success and one with 409, and the
\* store holds the winner's target at the read version plus one.
C1_Witness ==
    \E p, q \in Procs :
       /\ Raced(p, q) /\ BothReturned(p, q)
       /\ proc[p].newStatus # proc[q].newStatus
       /\ proc[p].result.status = StatusOK /\ proc[q].result.status = StatusConflict
       /\ store[proc[p].orderID].version = proc[p].order.Version
       /\ store[proc[p].orderID].status = proc[p].newStatus


\* the request of p is a GetOrderByID that has returned an order
GotOrder(p) ==
    /\ proc[p].op = "GetOrderByID" /\ proc[p].pc = "ret"
    /\ proc[p].result.status = StatusOK

\* C4 as stated: a GetOrderByID call that starts after an UpdateOrderStatus
\* call returned success (write committed, invalidation succeeded) never
\* returns the version and status the order had before that transition.
C4_NoStaleReadAfterSuccess ==
    \A g \in Procs :
       (GotOrder(g) /\ proc[g].floor >= 2) =>
          proc[g].result.order.Version # proc[g].floor - 1

\* C4, extent of the defect: such a call returns a version older than the
\* returned transition's only when it hits a cache entry that a GetOrderByID
\* call overlapping the transition wrote after the commit from a store read
\* made before it (GetOrderByID writes what it read unconditionally); a call
\* answered from the store returns the post-transition state or a later one.
C4_StaleReadOnlyFromLateWrite ==
    \A g \in Procs :
       (GotOrder(g) /\ proc[g].floor >= 2) =>
          /\ proc[g].result.order.Version < proc[g].floor => proc[g].lateHit
          /\ Len(proc[g].calls) > 1 => proc[g].result.order.Version >= proc[g].floor

\* C4, the intended case: a transition returned success after invalidating an entry
\* that held the old snapshot; a GetOrderByID that started afterwards missed
\* the cache and returned the new version from the store.
C4_Witness ==
    \E g, u \in Procs :
       /\ AckedBy(u, proc[g].orderID)
       /\ GotOrder(g) /\ proc[g].floor = proc[u].result.order.Version
       /\ proc[g].result.order.Version = proc[g].floor
       /\ proc[g].result.order.Status = proc[u].newStatus
       /\ proc[g].calls = <<"GetOrder", "FindByID", "SetOrder">>

\* the position in the commit history of order i of the transition an event
\* announces, 0 when no such transition was committed
PosInCommits(i, e) ==
    IF \E k \in 1..Len(commits[i]) :
          commits[i][k].old = e.OldStatus /\ commits[i][k].new = e.NewStatus
    THEN CHOOSE k \in 1..Len(commits[i]) :
            commits[i][k].old = e.OldStatus /\ commits[i][k].new = e.NewStatus
    ELSE 0

\* the events h of order i announce committed transitions, in commit order
InCommitOrder(i, h) ==
    \A k \in 1..Len(h) :
       /\ h[k].OrderID = i
       /\ PosInCommits(i, h[k]) > 0
       /\ \A j \in 1..(k - 1) : PosInCommits(i, h[j]) < PosInCommits(i, h[k])

\* each event starts from the status the previous one ended in
IsChain(h) == \A k \in 2..Len(h) : h[k].OldStatus = h[k - 1].NewStatus

\* C7 as stated: for every order the events are handed to the publisher in
\* the order in which their transitions were committed, so the sequence of
\* an order's events is a chain.
C7_EventsInCommitOrder ==
    \A i \in OrderIDs : InCommitOrder(i, handed[i]) /\ IsChain(handed[i])

\* the step hands the event of the request of p to the publisher while the
\* store still holds the version that request wrote
TimelyPublishStep(p) ==
    /\ proc[p].pc = "upd_publish" /\ proc'[p].pc = "ret"
    /\ store[proc[p].orderID].version = proc[p].order.Version

\* C7, extent of the defect: every event handed to the publisher is keyed by its order and
\* announces a transition committed for that order, each transition at most
\* once; an event handed before a later transition of the order is committed
\* follows the events of all earlier transitions and continues their chain.
\* (A call that hands its event after a later transition was committed and
\* published comes last: the commit order is not kept across overlapping calls.)
C7_TimelyEventsInCommitOrder ==
    /\ [](\A i \in OrderIDs :
            \A k \in 1..Len(handed[i]) :
               /\ handed[i][k].OrderID = i
               /\ PosInCommits(i, handed[i][k]) > 0
               /\ \A j \in 1..Len(handed[i]) :
                     PosInCommits(i, handed[i][j]) = PosInCommits(i, handed[i][k]) => j = k)
    /\ [][ \A p \in Procs : TimelyPublishStep(p) =>
              /\ handed'[proc[p].orderID] =
                    Append(handed[proc[p].orderID],
                           NewOrderStatusChangedEvent(proc[p].orderID, proc[p].order.CustomerID,
                                                      proc[p].oldStatus, proc[p].newStatus))
              /\ InCommitOrder(proc[p].orderID, handed'[proc[p].orderID])
              /\ IsChain(handed'[proc[p].orderID]) ]_vars

\* C7, the intended case: both transitions of an order were announced, in commit order,
\* by calls that overlapped no later transition.
C7_Witness ==
    \E i \in OrderIDs :
       /\ Len(commits[i]) = 2 /\ Len(handed[i]) = 2
       /\ InCommitOrder(i, handed[i]) /\ IsChain(handed[i])
       /\ handed[i][1].OldStatus = StatusNew


\* the step is the first one of an UpdateOrderStatus request of p: the read
\* of the aggregate followed by order.UpdateStatus
ReadAndTransitionStep(p) ==
    /\ proc[p].pc = "idle" /\ proc'[p].op = "UpdateOrderStatus"
    /\ proc'[p].order # NoOrder

\* the aggregate FindByID hands to the request that reads order i now
ReadOf(i) == FromBSON(store[i])

\* C11: for a known target that CanTransitionTo allows, UpdateStatus returns
\* no error, sets the status to the target and raises the version by exactly
\* 1 (nothing else but the update timestamp changes); so does the aggregate
\* held by every request after its UpdateStatus call.
C11_UpdateStatusApplies ==
    /\ [](\A i \in OrderIDs, t \in StatusInputs :
            (store[i] # NoDoc /\ IsValid(t) /\ CanTransitionTo(ReadOf(i).Status, t)) =>
               LET o == ReadOf(i)
                   u == UpdateStatus(o, t, NowAtUpdate(o))
               IN /\ u.err = ErrNone
                  /\ u.order.Status = t
                  /\ u.order.Version = o.Version + 1
                  /\ [u.order EXCEPT !.Status = o.Status, !.Version = o.Version,
                                     !.UpdatedAt = o.UpdatedAt] = o)
    /\ [][ \A p \in Procs :
             ( /\ ReadAndTransitionStep(p)
               /\ IsValid(proc'[p].newStatus)
               /\ CanTransitionTo(ReadOf(proc'[p].orderID).Status, proc'[p].newStatus) ) =>
                /\ proc'[p].pc = "upd_update" /\ proc'[p].domErr = ErrNone
                /\ proc'[p].order.Status = proc'[p].newStatus
                /\ proc'[p].order.Version = ReadOf(proc'[p].orderID).Version + 1 ]_vars

\* C11 witness: a request read IN_PROGRESS at version 2 and holds the
\* aggregate DELIVERED at version 3.
C11_Witness ==
    \E p \in Procs :
       /\ proc[p].pc = "upd_update"
       /\ proc[p].oldStatus = StatusInProgress /\ proc[p].newStatus = StatusDelivered
       /\ proc[p].order.Status = StatusDelivered /\ proc[p].order.Version = 3
       /\ store[proc[p].orderID].version = 2

\* C12: UpdateStatus returns ErrInvalidOrderData for a target outside the four
\* statuses whatever the current status, ErrInvalidStatusTransition for a
\* known target that CanTransitionTo refuses, and in both cases leaves the
\* aggregate as it was; so for every request whose UpdateStatus call failed.
C12_UpdateStatusRejects ==
    /\ [](\A i \in OrderIDs, t \in StatusInputs :
            store[i] # NoDoc =>
               LET o == ReadOf(i)
                   u == UpdateStatus(o, t, NowAtUpdate(o))
               IN /\ ~IsValid(t) => u.err = ErrInvalidOrderData /\ u.order = o
                  /\ (IsValid(t) /\ ~CanTransitionTo(o.Status, t)) =>
                        u.err = ErrInvalidStatusTransition /\ u.order = o)
    /\ [][ \A p \in Procs : ReadAndTransitionStep(p) =>
             LET o == ReadOf(proc'[p].orderID)
                 t == proc'[p].newStatus
             IN /\ ~IsValid(t) =>
                     /\ proc'[p].domErr = ErrInvalidOrderData
                     /\ proc'[p].order = o /\ proc'[p].pc = "ret"
                /\ (IsValid(t) /\ ~CanTransitionTo(o.Status, t)) =>
                     /\ proc'[p].domErr = ErrInvalidStatusTransition
                     /\ proc'[p].order = o /\ proc'[p].pc = "ret" ]_vars

\* C12 witness: an unknown target was refused on a terminal order, where the
\* transition table refuses every target too, and a known target was refused
\* by the table.
C12_Witness ==
    \E p, q \in Procs :
       /\ proc[p].pc = "ret" /\ proc[p].domErr = ErrInvalidOrderData
       /\ proc[p].newStatus = UnknownStatus /\ proc[p].oldStatus \in Terminal
       /\ proc[p].order.Version = 3
       /\ proc[q].pc = "ret" /\ proc[q].domErr = ErrInvalidStatusTransition
       /\ proc[q].order.Status = proc[q].oldStatus

\* quantity times price, summed over the first n line items
RECURSIVE SigmaTo(_, _)
SigmaTo(items, n) ==
    IF n = 0 THEN 0 ELSE SigmaTo(items, n - 1) + items[n].Quantity * items[n].Price

\* the input NewOrder is specified to accept
ValidInput(customerID, items) ==
    /\ customerID \in ValidUUIDs
    /\ Len(items) > 0
    /\ \A k \in 1..Len(items) : items[k].Quantity > 0 /\ items[k].Price > 0

\* the step is a whole CreateOrder call of p
CreateOrderStep(p) == proc[p].pc = "idle" /\ proc'[p].op = "CreateOrder"

\* C13: for every valid input NewOrder returns an order with version 1,
\* status NEW and totalAmount the sum of quantity times price over the items;
\* that is the order every successful CreateOrder returns and stores.
C13_NewOrderOfValidInput ==
    /\ \A c \in CustomerInputs, it \in ItemInputs :
          ValidInput(c, it) =>
             LET n == NewOrder(c, it, 1, NowAtCreate)
             IN /\ n.err = ErrNone
                /\ n.order.Version = 1 /\ n.order.Status = StatusNew
                /\ n.order.TotalAmount = SigmaTo(it, Len(it))
                /\ n.order.CustomerID = c /\ n.order.Items = it
    /\ \A p \in Procs :
          (proc[p].op = "CreateOrder" /\ ValidInput(proc[p].customerID, proc[p].items)) =>
             /\ proc[p].calls = <<"Create">>
             /\ proc[p].result.status = StatusOK =>
                   /\ proc[p].result.order.Version = 1
                   /\ proc[p].result.order.Status = StatusNew
                   /\ proc[p].result.order.TotalAmount =
                         SigmaTo(proc[p].items, Len(proc[p].items))
    /\ \A i \in OrderIDs :
          store[i] # NoDoc =>
             ReadOf(i).TotalAmount = SigmaTo(ReadOf(i).Items, Len(ReadOf(i).Items))

\* C13 witness: CreateOrder returned an order of two line items, 2 x 5 and
\* 1 x 3, with total 13.
C13_Witness ==
    \E p \in Procs :
       /\ proc[p].op = "CreateOrder" /\ proc[p].result.status = StatusOK
       /\ Len(proc[p].items) = 2
       /\ proc[p].result.order.TotalAmount = 13
       /\ proc[p].result.order.Version = 1

\* C14: CreateOrder called with an empty or non-UUID customerID, with no
\* items, or with an item of quantity <= 0 or price <= 0 returns status 400
\* from ErrInvalidOrderData and no order, calls Store.Create not at all and
\* leaves the store unchanged.
C14_CreateOrderRejectsInvalid ==
    /\ [](\A c \in CustomerInputs, it \in ItemInputs :
            ~ValidInput(c, it) =>
               NewOrder(c, it, 1, NowAtCreate) = [order |-> NoOrder, err |-> ErrInvalidOrderData])
    /\ [][ \A p \in Procs :
             (CreateOrderStep(p) /\ ~ValidInput(proc'[p].customerID, proc'[p].items)) =>
                /\ proc'[p].result = Failure(StatusBadRequest)
                /\ proc'[p].domErr = ErrInvalidOrderData
                /\ proc'[p].calls = <<>>
                /\ store' = store ]_vars

\* C14 witness: with an order already stored, a CreateOrder for a valid
\* customer whose second item has price 0 was refused.
C14_Witness ==
    \E p \in Procs, i \in OrderIDs :
       /\ store[i] # NoDoc
       /\ proc[p].op = "CreateOrder" /\ proc[p].customerID \in ValidUUIDs
       /\ Len(proc[p].items) = 2 /\ proc[p].items[2].Price = 0
       /\ proc[p].result = Failure(StatusBadRequest) /\ proc[p].calls = <<>>

\* C15: an UpdateOrderStatus whose target is no legal transition from the
\* status read from the store returns 400 (from ErrInvalidStatusTransition
\* when the target is a known status) and no order, having called FindByID
\* only: the store, the cache and the publisher are left as they were.
C15_IllegalTransitionRefused ==
    /\ [][ \A p \in Procs :
             ( /\ ReadAndTransitionStep(p)
               /\ <<ReadOf(proc'[p].orderID).Status, proc'[p].newStatus>> \notin LegalEdges ) =>
                /\ proc'[p].pc = "ret"
                /\ proc'[p].result = Failure(StatusBadRequest)
                /\ proc'[p].calls = <<"FindByID">>
                /\ proc'[p].newStatus \in Statuses =>
                      proc'[p].domErr = ErrInvalidStatusTransition
                /\ store' = store /\ cache' = cache /\ handed' = handed ]_vars
    /\ [](\A p \in Procs :
            (proc[p].op = "UpdateOrderStatus" /\ proc[p].domErr # ErrNone) =>
               /\ proc[p].pc = "ret" /\ proc[p].calls = <<"FindByID">>
               /\ proc[p].result = Failure(StatusBadRequest))

\* C15 witness: DELIVERED -> IN_PROGRESS was refused on an order stored as
\* DELIVERED at version 3.
C15_Witness ==
    \E p \in Procs :
       /\ proc[p].op = "UpdateOrderStatus" /\ proc[p].pc = "ret"
       /\ proc[p].oldStatus = StatusDelivered /\ proc[p].newStatus = StatusInProgress
       /\ proc[p].result = Failure(StatusBadRequest)
       /\ proc[p].domErr = ErrInvalidStatusTransition
       /\ store[proc[p].orderID].status = StatusDelivered
       /\ store[proc[p].orderID].version = 3

\* C16: when orderRepo.Update returns a version conflict the request returns
\* 409 and no order after FindByID and Update only; the step that learns of
\* the conflict and the return leave the cache and the publisher untouched.
C16_ConflictStopsTheRequest ==
    /\ [](\A p \in Procs :
            proc[p].updErr = StatusConflict =>
               /\ proc[p].pc = "ret"
               /\ proc[p].result = Failure(StatusConflict)
               /\ proc[p].calls = <<"FindByID", "Update">>
               /\ proc[p].invErr = NoErr /\ proc[p].pubErr = NoErr)
    /\ [][ \A p \in Procs :
             ( \/ proc[p].pc = "upd_lookup" /\ proc'[p].pc # "upd_lookup"
               \/ proc[p].updErr = StatusConflict /\ proc'[p] # proc[p] ) =>
                /\ cache' = cache /\ handed' = handed /\ store' = store
                /\ proc'[p].pc \in {"ret", "idle"} ]_vars

\* C16 witness: a request was turned away with 409 while the cache holds an
\* entry for the order and the only event handed over is the winner's.
C16_Witness ==
    \E p \in Procs :
       /\ proc[p].pc = "ret" /\ proc[p].updErr = StatusConflict
       /\ proc[p].result = Failure(StatusConflict)
       /\ cache[proc[p].orderID] # NoBlob
       /\ Len(handed[proc[p].orderID]) = 1
       /\ handed[proc[p].orderID][1].NewStatus # proc[p].newStatus

\* the event a successful UpdateOrderStatus of p is specified to publish
EventOf(p) ==
    [EventType |-> "ORDER_STATUS_CHANGED", OrderID |-> proc[p].orderID,
     CustomerID |-> proc[p].order.CustomerID,
     OldStatus |-> proc[p].oldStatus, NewStatus |-> proc[p].newStatus]

\* C17: an UpdateOrderStatus that returns success returns the order with the
\* target status and the read version plus 1, the version and old status of
\* the transition it committed; it made each of the four calls once and its
\* one PublishOrderEvent call handed over the event ORDER_STATUS_CHANGED for
\* the order with oldStatus the status read and newStatus the target.
C17_SuccessReturnsAndPublishes ==
    /\ [](\A p \in Procs :
            ( /\ proc[p].op = "UpdateOrderStatus" /\ proc[p].pc = "ret"
              /\ proc[p].result.status = StatusOK ) =>
               LET i == proc[p].orderID
                   o == proc[p].result.order
               IN /\ o = proc[p].order /\ o.ID = i
                  /\ o.Status = proc[p].newStatus
                  /\ proc[p].calls = UpdateCallOrder
                  /\ Committed(i, o.Version)
                  /\ commits[i][o.Version - 1] =
                        [old |-> proc[p].oldStatus, new |-> proc[p].newStatus,
                         version |-> o.Version, by |-> p]
                  /\ Cardinality({k \in 1..Len(handed[i]) : handed[i][k] = EventOf(p)}) = 1)
    /\ [][ \A p \in Procs :
             /\ (ReadAndTransitionStep(p) /\ proc'[p].pc = "upd_update") =>
                   /\ proc'[p].oldStatus = store[proc'[p].orderID].status
                   /\ proc'[p].order.Version = store[proc'[p].orderID].version + 1
             /\ (Built(p) /\ proc'[p].pc # "idle") =>
                   /\ proc'[p].order = proc[p].order
                   /\ proc'[p].oldStatus = proc[p].oldStatus
                   /\ proc'[p].newStatus = proc[p].newStatus
             /\ (proc[p].pc = "upd_publish" /\ proc'[p].pc = "ret") =>
                   /\ handed' = [handed EXCEPT ![proc[p].orderID] = Append(@, EventOf(p))]
                   /\ proc'[p].result.status = StatusOK ]_vars

\* C17 witness: NEW -> IN_PROGRESS returned version 2 and IN_PROGRESS, and
\* the one event handed over for the order says NEW, IN_PROGRESS.
C17_Witness ==
    \E p \in Procs :
       /\ proc[p].op = "UpdateOrderStatus" /\ proc[p].pc = "ret"
       /\ proc[p].result.status = StatusOK
       /\ proc[p].result.order.Version = 2
       /\ proc[p].result.order.Status = StatusInProgress
       /\ handed[proc[p].orderID] =
             << [EventType |-> "ORDER_STATUS_CHANGED", OrderID |-> proc[p].orderID,
                 CustomerID |-> CustomerA,
                 OldStatus |-> StatusNew, NewStatus |-> StatusInProgress] >>

\* the step is the cacheRepo.GetOrder round trip of a GetOrderByID of p
GetStep(p) == proc[p].pc = "idle" /\ proc'[p].op = "GetOrderByID"

\* C18: when cacheRepo.GetOrder returns an order GetOrderByID returns that
\* order at once: GetOrder is its only call, the store is not read and the
\* cache is not written.
C18_CacheHitSkipsStore ==
    /\ [][ \A p \in Procs :
             ( /\ GetStep(p) /\ proc'[p].getErr = NoErr
               /\ cache[proc'[p].orderID] # NoBlob ) =>
                /\ proc'[p].pc = "ret"
                /\ proc'[p].result = Success(FromJSON(cache[proc'[p].orderID]))
                /\ proc'[p].result.order.ID = proc'[p].orderID
                /\ proc'[p].calls = <<"GetOrder">>
                /\ store' = store /\ cache' = cache ]_vars
    /\ [](\A p \in Procs :
            (proc[p].op = "GetOrderByID" /\ proc[p].pc = "ret"
                                         /\ proc[p].calls = <<"GetOrder">>) =>
               proc[p].result = Success(proc[p].order))

\* C18 witness: a GetOrderByID answered from the cache alone returned the
\* order at version 2, the version the store holds.
C18_Witness ==
    \E p \in Procs :
       /\ proc[p].op = "GetOrderByID" /\ proc[p].pc = "ret"
       /\ proc[p].calls = <<"GetOrder">>
       /\ proc[p].result.status = StatusOK
       /\ proc[p].result.order.Version = 2
       /\ store[proc[p].orderID].version = 2

\* C19: after a miss or a failure of cacheRepo.GetOrder, GetOrderByID calls
\* orderRepo.FindByID; when that returns the order it calls cacheRepo.SetOrder
\* once with it and returns the order as success, whether the cache write
\* stored the entry or failed.
C19_MissReadsStoreThenCaches ==
    /\ [][ \A p \in Procs :
             /\ ( /\ GetStep(p)
                  /\ proc'[p].getErr # NoErr \/ cache[proc'[p].orderID] = NoBlob ) =>
                   proc'[p].pc = "get_find"
             /\ (proc[p].pc = "get_find" /\ proc'[p].pc # "get_find") =>
                   /\ proc'[p].calls = <<"GetOrder", "FindByID">>
                   /\ store' = store /\ cache' = cache
                   /\ IF proc'[p].result = NoResult
                      THEN /\ proc'[p].pc = "get_set"
                           /\ store[proc[p].orderID] # NoDoc
                           /\ proc'[p].order = ReadOf(proc[p].orderID)
                      ELSE proc'[p].pc = "ret" /\ proc'[p].result.status # StatusOK
             /\ (proc[p].pc = "get_set" /\ proc'[p].pc # "get_set") =>
                   /\ proc'[p].pc = "ret"
                   /\ proc'[p].calls = <<"GetOrder", "FindByID", "SetOrder">>
                   /\ proc'[p].result = Success(proc[p].order)
                   /\ store' = store
                   /\ cache' = IF proc'[p].setErr = NoErr
                               THEN [cache EXCEPT ![proc[p].orderID] = ToJSON(proc[p].order)]
                               ELSE cache ]_vars
    /\ [](\A p \in Procs :
            (proc[p].op = "GetOrderByID" /\ proc[p].pc = "ret" /\ Len(proc[p].calls) = 3) =>
               proc[p].result = Success(proc[p].order))

\* C19 witness: the cache read failed although the entry was there, the
\* store returned the order, the cache write failed too, and the request
\* returned the order.
C19_Witness ==
    \E p \in Procs :
       /\ proc[p].op = "GetOrderByID" /\ proc[p].pc = "ret"
       /\ proc[p].getErr # NoErr /\ proc[p].setErr # NoErr
       /\ cache[proc[p].orderID] # NoBlob
       /\ proc[p].calls = <<"GetOrder", "FindByID", "SetOrder">>
       /\ proc[p].result = Success(ReadOf(proc[p].orderID))

\* the step is the orderRepo.FindByID round trip of a GetOrderByID of p for
\* an identifier that has neither a cache entry nor a stored record
AbsentLookupStep(p) ==
    /\ proc[p].pc = "get_find" /\ proc'[p].pc # "get_find"
    /\ cache[proc[p].orderID] = NoBlob /\ store[proc[p].orderID] = NoDoc

\* C20 as stated: with no cache entry and no stored record GetOrderByID
\* returns 404 and no order and writes nothing to the cache.
C20_AbsentOrderIsNotFound ==
    [][ \A p \in Procs : AbsentLookupStep(p) =>
           /\ proc'[p].result = Failure(StatusNotFound)
           /\ cache' = cache ]_vars

\* C20 amended: with no cache entry and no stored record GetOrderByID returns
\* no order and writes nothing to the cache; the status is 404 when the store
\* answers that there is no such document and 500 when the store read itself
\* fails.
C20_AbsentOrderIsNotFoundOr500 ==
    /\ [](\A i \in OrderIDs :
            store[i] = NoDoc =>
               /\ FindByID(store, i, FALSE) = [order |-> NoOrder, err |-> StatusNotFound]
               /\ FindByID(store, i, TRUE) = [order |-> NoOrder, err |-> StatusInternalServerError])
    /\ [][ \A p \in Procs : AbsentLookupStep(p) =>
              /\ proc'[p].pc = "ret"
              /\ proc'[p].result \in {Failure(StatusNotFound), Failure(StatusInternalServerError)}
              /\ proc'[p].calls = <<"GetOrder", "FindByID">>
              /\ cache' = cache /\ store' = store ]_vars

\* C20 witness: a GetOrderByID for an identifier nobody created came back
\* with 404 after a clean miss, the cache still empty.
C20_Witness ==
    \E p \in Procs :
       /\ proc[p].op = "GetOrderByID" /\ proc[p].pc = "ret"
       /\ proc[p].getErr = NoErr
       /\ proc[p].result = Failure(StatusNotFound)
       /\ proc[p].calls = <<"GetOrder", "FindByID">>
       /\ store[proc[p].orderID] = NoDoc /\ cache[proc[p].orderID] = NoBlob

\* ---------------------------------------------------------------------------
\* Update after a write that matched no document

\* the existence lookup of Update, taken by request p
LookupStep(p) == proc[p].pc = "upd_lookup" /\ proc'[p].pc = "ret"

\* C21: when the conditional write matched nothing, Update returns NotFound
\* only if no record with the identifier exists and VersionConflict whenever
\* the record exists with another version; the lookup runs only after a write
\* that matched nothing.
C21_ZeroMatchToldApart ==
    [][ \A p \in Procs :
          /\ LookupStep(p) =>
                /\ proc[p].calls = <<"FindByID", "Update">>
                /\ store[proc[p].orderID] # NoDoc
                      => proc'[p].updErr = StatusConflict
                /\ proc'[p].updErr = StatusNotFound
                      => store[proc[p].orderID] = NoDoc
          /\ proc'[p].pc = "upd_lookup" /\ proc[p].pc # "upd_lookup"
                => /\ UpdateOneStep(p)
                   /\ store' = store
                   /\ ~FilterMatches(p) ]_vars

\* C21 witness: the lookup found the record and the request came back with
\* a version conflict.
C21_Witness ==
    \E p \in Procs :
       /\ proc[p].pc = "ret" /\ proc[p].op = "UpdateOrderStatus"
       /\ proc[p].updErr = StatusConflict
       /\ store[proc[p].orderID] # NoDoc
       /\ store[proc[p].orderID].version # proc[p].order.Version - 1

\* ---------------------------------------------------------------------------
\* Round trip through the store

\* C22: the order most recently written to the store, by Create or by a
\* successful Update, is what a following FindByID returns, field for field;
\* after a successful UpdateOrderStatus the record read back carries the new
\* status, the incremented version and the refreshed updatedAt.
C22_StoreRoundTrip ==
    [][ \A p \in Procs :
          /\ ( CreateOrderStep(p) /\ proc'[p].result.status = StatusOK )
                => FindByID(store', proc'[p].result.order.ID, FALSE)
                      = [order |-> proc'[p].result.order, err |-> NoErr]
          /\ ( UpdateOneStep(p) /\ store' # store )
                => FindByID(store', proc[p].order.ID, FALSE)
                      = [order |-> proc[p].order, err |-> NoErr] ]_vars

\* C22, the part the code keeps: after Create the record reads back field
\* for field, and after a successful Update it reads back with the new
\* status and the incremented version.
C22_RoundTripButUpdatedAt ==
    [][ \A p \in Procs :
          /\ ( CreateOrderStep(p) /\ proc'[p].result.status = StatusOK )
                => FindByID(store', proc'[p].result.order.ID, FALSE)
                      = [order |-> proc'[p].result.order, err |-> NoErr]
          /\ ( UpdateOneStep(p) /\ store' # store )
                => LET back == FindByID(store', proc[p].order.ID, FALSE).order
                   IN /\ [back EXCEPT !.UpdatedAt = proc[p].order.UpdatedAt] = proc[p].order
                      /\ back.UpdatedAt = ReadOf(proc[p].order.ID).UpdatedAt ]_vars

\* C22 witness: a transition was written and its request returned the order
\* at the version the store now holds.
C22_Witness ==
    \E p \in Procs :
       /\ proc[p].op = "UpdateOrderStatus" /\ proc[p].pc = "ret"
       /\ proc[p].result.status = StatusOK
       /\ store[proc[p].orderID].version = proc[p].result.order.Version

\* ---------------------------------------------------------------------------
\* handlers: the status code written for a service result

\* OrderHandler.GetOrder after h.service.GetOrderByID has returned
OrderHandler_GetOrder(result) ==
    IF result.status # StatusOK THEN StatusInternalServerError ELSE StatusOK

\* OrderHandler.UpdateOrderStatus after h.service.UpdateOrderStatus has returned
OrderHandler_UpdateOrderStatus(result) ==
    IF result.status # StatusOK THEN StatusInternalServerError ELSE StatusOK

\* the status code of the response to the request of p
ResponseStatus(p) ==
    IF proc[p].op = "GetOrderByID" THEN OrderHandler_GetOrder(proc[p].result)
    ELSE OrderHandler_UpdateOrderStatus(proc[p].result)

\* the request of p is a GetOrderByID or UpdateOrderStatus about to be answered
Answering(p) ==
    /\ proc[p].pc = "ret"
    /\ proc[p].op \in {"GetOrderByID", "UpdateOrderStatus"}

\* C23: at the HTTP boundary each failure kind of GetOrder and
\* UpdateOrderStatus has its own status code: 400 for bad input or an illegal
\* transition, 404 for an order not found, 409 for a version conflict and 500
\* for an infrastructure fault.
C23_FailureKindsDistinct ==
    \A p \in Procs :
       Answering(p) => ResponseStatus(p) = proc[p].result.status

\* C23, what the handlers do: success is answered 200 and every failure of
\* the service, whatever its kind, is answered 500.
C23_EveryFailureIs500 ==
    \A p \in Procs :
       Answering(p) =>
          ResponseStatus(p) = IF proc[p].result.status = StatusOK
                              THEN StatusOK ELSE StatusInternalServerError

\* C23 witness: a request that failed with a version conflict, an illegal
\* transition or a missing order is about to be answered.
C23_Witness ==
    \E p \in Procs :
       /\ Answering(p)
       /\ proc[p].result.status \in {StatusBadRequest, StatusNotFound, StatusConflict}

\* ---------------------------------------------------------------------------
\* CreateOrder and the other collaborators

SomeOrder(i) == NewOrder(CustomerA, <<Item(1, 3)>>, i, NowAtCreate).order

\* C25: Create of an order whose identifier is already stored returns 409,
\* not the 500 of a failed insert, and leaves the stored record as it was;
\* CreateOrder returns that status and no order.
C25_DuplicateIsConflict ==
    /\ [](\A i \in OrderIDs :
            store[i] # NoDoc =>
               /\ Create(store, SomeOrder(i), FALSE) = [store |-> store, err |-> StatusConflict]
               /\ Create(store, SomeOrder(i), TRUE)
                     = [store |-> store, err |-> StatusInternalServerError])
    /\ [][ \A p \in Procs : CreateOrderStep(p) =>
             /\ ( /\ ValidInput(proc'[p].customerID, proc'[p].items)
                  /\ \A i \in OrderIDs : store[i] # NoDoc )
                   => /\ proc'[p].result \in {Failure(StatusConflict),
                                               Failure(StatusInternalServerError)}
                      /\ proc'[p].calls = <<"Create">>
                      /\ store' = store
             /\ proc'[p].result.status = StatusConflict
                   => /\ proc'[p].result.order = NoOrder
                      /\ store' = store
                      /\ \E i \in OrderIDs : store[i] # NoDoc ]_vars

\* C25 witness: a CreateOrder whose identifier was taken came back with 409
\* and no order.
C25_Witness ==
    \E p \in Procs :
       /\ proc[p].op = "CreateOrder" /\ proc[p].pc = "ret"
       /\ proc[p].calls = <<"Create">>
       /\ proc[p].result = Failure(StatusConflict)

\* ---------------------------------------------------------------------------
\* ListOrders

\* the step is a whole ListOrders call of p
ListStep(p) == proc[p].pc = "idle" /\ proc'[p].op = "ListOrders"

\* what ListOrders returns for the answer r of FindWithFilters
ListResult(r) ==
    IF r.err # NoErr THEN [status |-> r.err, orders |-> <<>>, total |-> 0]
    ELSE [status |-> StatusOK, orders |-> r.orders, total |-> r.total]

\* the answers FindWithFilters can give on store content st
ListAnswers(st) ==
    { FindWithFilters(st, status, customerID, page, limit, fault) :
         status \in {"", StatusNew, StatusCancelled}, customerID \in {"", CustomerA},
         page \in PageInputs, limit \in LimitInputs, fault \in BOOLEAN }

\* C26: ListOrders is answered by one FindWithFilters call and neither
\* reads, writes nor invalidates the cache; a store failure is returned with
\* the status of the store, no items and total 0.
C26_ListOrdersIsOneStoreRead ==
    [][ \A p \in Procs : ListStep(p) =>
          /\ proc'[p].calls = <<"FindWithFilters">>
          /\ proc'[p].pc = "ret"
          /\ cache' = cache /\ store' = store /\ handed' = handed
          /\ \E r \in ListAnswers(store) :
                /\ proc'[p].listErr = r.err
                /\ proc'[p].result = ListResult(r)
          /\ proc'[p].listErr # NoErr =>
                proc'[p].result = [status |-> StatusInternalServerError,
                                   orders |-> <<>>, total |-> 0] ]_vars

\* C26 witness: a ListOrders came back with the failure of the store while
\* an order was stored and cached.
C26_Witness ==
    \E p \in Procs :
       /\ proc[p].op = "ListOrders" /\ proc[p].pc = "ret"
       /\ proc[p].calls = <<"FindWithFilters">>
       /\ proc[p].listErr = StatusInternalServerError
       /\ proc[p].result = [status |-> StatusInternalServerError, orders |-> <<>>, total |-> 0]
       /\ \E i \in OrderIDs : store[i] # NoDoc /\ cache[i] # NoBlob

\* ---------------------------------------------------------------------------
\* Listing a store that holds several orders

\* the orders the listed store may hold
MaxListed == 3
ListedIDs == 1..MaxListed

\* the document of order i of customer c, created at time t and now in
\* status s: written by Create and, past NEW, rewritten by one or two Updates
ListedDoc(i, c, t, s) ==
    LET o == NewOrder(c, <<Item(1, 3)>>, i, t).order
        st0 == Create([j \in ListedIDs |-> NoDoc], o, FALSE).store
        first == IF s \in {StatusNew, StatusCancelled} THEN s ELSE StatusInProgress
        o1 == UpdateStatus(o, first, t + 1).order
        st1 == IF s = StatusNew THEN st0 ELSE UpdateOne(st0, o1, FALSE).store
        o2 == UpdateStatus(o1, s, t + 2).order
        st2 == IF s = StatusDelivered THEN UpdateOne(st1, o2, FALSE).store ELSE st1
    IN st2[i]

\* store contents: every identifier is free or holds an order of one of two
\* customers; the stored orders have distinct creation times
ListedStores ==
    { st \in [ListedIDs -> {NoDoc} \cup
                  { ListedDoc(i, c, t, s) : i \in ListedIDs, c \in ValidUUIDs,
                                            t \in ListedIDs,
                                            s \in {StatusNew, StatusCancelled} }] :
         /\ \A i \in ListedIDs : st[i] # NoDoc => st[i]._id = i
         /\ \A i, j \in ListedIDs :
               (i # j /\ st[i] # NoDoc /\ st[j] # NoDoc) => st[i].createdAt # st[j].createdAt }

InitListing ==
    /\ store \in ListedStores
    /\ cache = [i \in ListedIDs |-> NoBlob]
    /\ handed = [i \in ListedIDs |-> <<>>]
    /\ proc = [p \in Procs |-> IdleProc]
    /\ commits = [i \in ListedIDs |-> <<>>]
    /\ succ = [i \in ListedIDs |-> 0]
    /\ lateWrite = [i \in ListedIDs |-> FALSE]
    /\ age = [i \in ListedIDs |-> 0]

NextListing ==
    \/ \E p \in Procs : ListOrders(p)
    \/ \E p \in Procs : Return(p)

\* ListOrders calls on a store that holds up to MaxListed orders
SpecListing == InitListing /\ [][NextListing]_vars

\* the stored identifiers the filters select
Selected(st, status, customerID) ==
    { i \in DOMAIN st : /\ st[i] # NoDoc
                        /\ status = "" \/ st[i].status = status
                        /\ customerID = "" \/ st[i].customerId = customerID }

\* the number of selected orders created after order o
NewerThan(st, sel, o) == Cardinality({ j \in sel : st[j].createdAt > o.CreatedAt })

\* orders is the page (page, limit) of the selected orders, newest first
IsPageOf(orders, st, sel, page, limit) ==
    LET skip == (page - 1) * limit
        left == IF Cardinality(sel) > skip THEN Cardinality(sel) - skip ELSE 0
    IN /\ Len(orders) = IF left < limit THEN left ELSE limit
       /\ \A k \in 1..Len(orders) :
             /\ orders[k].ID \in sel
             /\ orders[k] = FromBSON(st[orders[k].ID])
             /\ NewerThan(st, sel, orders[k]) = skip + k - 1

\* C27: for every store content, status filter, customer filter, page >= 1
\* and page size >= 1, FindWithFilters returns as total the number of orders
\* matching all the filters present (an empty filter matches every order) and
\* as items the matching orders sorted by creation time descending, less the
\* first (page-1)*pageSize, at most pageSize of them.
C27_FindWithFiltersPages ==
    /\ [](\A status \in {""} \cup Statuses, customerID \in {""} \cup ValidUUIDs,
             page \in 1..MaxListed, limit \in 1..MaxListed :
             LET r == FindWithFilters(store, status, customerID, page, limit, FALSE)
                 sel == Selected(store, status, customerID)
             IN /\ r.err = NoErr
                /\ r.total = Cardinality(sel)
                /\ IsPageOf(r.orders, store, sel, page, limit))
    /\ [][ \A p \in Procs :
             ( ListStep(p) /\ proc'[p].listErr = NoErr ) =>
                \E status \in {"", StatusNew, StatusCancelled}, customerID \in {"", CustomerA},
                   page \in PageInputs, limit \in LimitInputs :
                   LET sel == Selected(store, status, customerID)
                   IN /\ proc'[p].result.status = StatusOK
                      /\ proc'[p].result.total = Cardinality(sel)
                      /\ IsPageOf(proc'[p].result.orders, store, sel, page, limit) ]_vars

\* C27 witness: three orders are stored and a ListOrders returned the second
\* page of size two: total 3 and one item, the oldest order.
C27_Witness ==
    \E p \in Procs :
       /\ proc[p].op = "ListOrders" /\ proc[p].pc = "ret"
       /\ proc[p].result.status = StatusOK
       /\ proc[p].result.total = 3
       /\ Len(proc[p].result.orders) = 1
       /\ \A i \in DOMAIN store :
             store[i] # NoDoc /\ store[i].createdAt >= proc[p].result.orders[1].CreatedAt

\* ---------------------------------------------------------------------------
\* Transitions of two orders side by side

\* the orders of the two-order executions
MaxPaired == 2
PairedIDs == 1..MaxPaired

\* order i as CreateOrder stored it
PairedOrder(i) == NewOrder(CustomerA, <<Item(1, 3)>>, i, i).order

\* both orders have been created; each may have been read into the cache
InitPaired ==
    /\ store = [i \in PairedIDs |-> ToBSON(PairedOrder(i))]
    /\ cache \in [PairedIDs -> {NoBlob} \cup {ToJSON(PairedOrder(i)) : i \in PairedIDs}]
    /\ \A i \in PairedIDs : cache[i] # NoBlob => cache[i].orderId = i
    /\ handed = [i \in PairedIDs |-> <<>>]
    /\ proc = [p \in Procs |-> IdleProc]
    /\ commits = [i \in PairedIDs |-> <<>>]
    /\ succ = [i \in PairedIDs |-> 0]
    /\ lateWrite = [i \in PairedIDs |-> FALSE]
    /\ age = [i \in PairedIDs |-> 0]

NextPaired ==
    \/ \E p \in Procs : UpdateOrderStatus_FindByID(p)
    \/ \E p \in Procs : UpdateOrderStatus_Update(p)
    \/ \E p \in Procs : Update_FindByID(p)
    \/ \E p \in Procs : UpdateOrderStatus_InvalidateOrder(p)
    \/ \E p \in Procs : UpdateOrderStatus_PublishOrderEvent(p)

\* one UpdateOrderStatus call per request goroutine, on two stored orders
SpecPaired == InitPaired /\ [][NextPaired]_vars

\* the step belongs to the UpdateOrderStatus call of p
UpdateOrderStatusStep(p) ==
    /\ proc'[p] # proc[p]
    /\ proc'[p].op = "UpdateOrderStatus"

\* a request other than p has committed order i at version v
CommittedByOther(p, i, v) ==
    \E k \in 1..Len(commits[i]) : commits[i][k].version = v /\ commits[i][k].by # p

\* C28: an UpdateOrderStatus call on order A never changes the stored
\* record, the cache entry or the published events of another order B, and
\* transitions on different orders never cause each other a version
\* conflict: a write matches nothing only when the stored version of A
\* itself has moved, and a call is refused with 409 only after another
\* request committed the same version of the same order.
C28_OrdersAreIndependent ==
    /\ [][ \A p \in Procs : UpdateOrderStatusStep(p) =>
             LET a == proc'[p].orderID IN
             /\ \A b \in DOMAIN store \ {a} :
                   /\ store'[b] = store[b]
                   /\ cache'[b] = cache[b]
                   /\ handed'[b] = handed[b]
             /\ ( UpdateOneStep(p) /\ proc'[p].pc = "upd_lookup" )
                   => store[a].version # proc[p].order.Version - 1 ]_vars
    /\ [](\A p \in Procs :
            proc[p].updErr = StatusConflict
               => CommittedByOther(p, proc[p].orderID, proc[p].order.Version))

\* C28 witness: two requests on different orders have both committed their
\* transition while the other was in flight.
C28_Witness ==
    \E p, q \in Procs :
       /\ proc[p].orderID # proc[q].orderID
       /\ Committing(p) /\ Committing(q)
       /\ store[proc[p].orderID].version = 2
       /\ store[proc[q].orderID].version = 2

\* ---------------------------------------------------------------------------
\* Transitions that no other request overlaps

\* every request but that of p is between calls: not started or returned
Alone(p) == \A q \in Procs \ {p} : proc[q].pc \in {"idle", "ret"}

\* no request but that of p is inside an UpdateOrderStatus call
NoTransitionBut(p) ==
    \A q \in Procs \ {p} :
       proc[q].pc \notin {"upd_update", "upd_lookup", "upd_invalidate", "upd_publish"}

\* the requests are served so that an UpdateOrderStatus call starts when no
\* other call is running and no call starts or moves while it runs; its
\* write then always matches, and the existence lookup is never reached
NextSerial ==
    \/ \E p \in Procs : NoTransitionBut(p) /\ CreateOrder(p)
    \/ \E p \in Procs : NoTransitionBut(p) /\ ListOrders(p)
    \/ \E p \in Procs : NoTransitionBut(p) /\ GetOrderByID_GetOrder(p)
    \/ \E p \in Procs : NoTransitionBut(p) /\ GetOrderByID_FindByID(p)
    \/ \E p \in Procs : NoTransitionBut(p) /\ GetOrderByID_SetOrder(p)
    \/ \E p \in Procs : Alone(p) /\ UpdateOrderStatus_FindByID(p)
    \/ \E p \in Procs : UpdateOrderStatus_Update(p)
    \/ \E p \in Procs : UpdateOrderStatus_InvalidateOrder(p)
    \/ \E p \in Procs : UpdateOrderStatus_PublishOrderEvent(p)
    \/ \E p \in Procs : Return(p)
    \/ \E i \in OrderIDs : Expire(i)

\* the executions in which no operation overlaps a transition
SpecSerial == Init /\ [][NextSerial]_vars

\* the step is the InvalidateOrder call of the request of p
InvalidateStep(p) == proc[p].pc = "upd_invalidate" /\ proc'[p].pc # "upd_invalidate"

\* C29: when no other operation on the order overlaps the transition and the
\* cache invalidation succeeds, the invalidation removes whatever snapshot
\* the cache held, and a GetOrderByID issued after the successful
\* UpdateOrderStatus returns the post-transition status and version (or
\* those of a later transition).
C29_FreshReadAfterQuietTransition ==
    /\ [][ \A p \in Procs :
             ( InvalidateStep(p) /\ proc'[p].invErr = NoErr )
                => cache'[proc[p].orderID] = NoBlob ]_vars
    /\ [](\A g \in Procs :
            ( GotOrder(g) /\ proc[g].floor >= 2 ) =>
               LET o == proc[g].result.order IN
               /\ o.Version >= proc[g].floor
               /\ Committed(o.ID, o.Version)
               /\ o.Status = commits[o.ID][o.Version - 1].new)

\* C29 witness: the cache holds the snapshot a GetOrderByID wrote after it
\* missed the cache behind a returned transition and read the post-transition
\* record from the store.
C29_Witness ==
    \E g, u \in Procs :
       /\ AckedBy(u, proc[g].orderID)
       /\ GotOrder(g) /\ proc[g].floor = 2
       /\ proc[g].calls = <<"GetOrder", "FindByID", "SetOrder">>
       /\ proc[g].result.order.Version = 2
       /\ proc[g].result.order.Status = proc[u].newStatus
       /\ cache[proc[g].orderID] = ToJSON(proc[g].result.order)

\* ---------------------------------------------------------------------------
\* Invalidation of the cache

\* C30: InvalidateOrder is idempotent: invalidating an identifier that has no
\* cache entry succeeds and leaves the cache unchanged, and invalidating
\* twice leaves the cache as invalidating once does, without error.
C30_InvalidateOrderIdempotent ==
    /\ [](\A i \in OrderIDs :
            LET once == InvalidateOrder(cache, i, FALSE)
                twice == InvalidateOrder(once.cache, i, FALSE)
            IN /\ once.err = NoErr /\ once.cache[i] = NoBlob
               /\ cache[i] = NoBlob => once.cache = cache
               /\ twice = once)
    /\ [][ \A p \in Procs :
             ( /\ InvalidateStep(p) /\ proc'[p].invErr = NoErr
               /\ cache[proc[p].orderID] = NoBlob )
                => cache' = cache ]_vars

\* C30 witness: the second transition of an order has invalidated its cache
\* key without error, and the key has no entry.
C30_Witness ==
    \E p \in Procs :
       /\ proc[p].pc = "upd_publish" /\ proc[p].invErr = NoErr
       /\ proc[p].order.Version = 3
       /\ Len(commits[proc[p].orderID]) = 2
       /\ cache[proc[p].orderID] = NoBlob

\* ---------------------------------------------------------------------------
\* The stored status over whole executions

\* C32: under any interleaving every change of the stored status of an order
\* goes along one legal edge of the state machine; the stored status never
\* skips a state and never returns to NEW.
C32_StoredStatusFollowsEdges ==
    [][ \A i \in OrderIDs :
          /\ (store[i] = NoDoc /\ store'[i] # NoDoc) => store'[i].status = StatusNew
          /\ store[i] # NoDoc =>
                /\ store'[i] # NoDoc
                /\ store'[i].status # store[i].status
                      => /\ <<store[i].status, store'[i].status>> \in LegalEdges
                         /\ store'[i].status # StatusNew ]_vars

\* C32 witness: an order went NEW, IN_PROGRESS, DELIVERED while a second
\* request raced each of the two writes.
C32_Witness ==
    \E i \in OrderIDs :
       /\ store[i] # NoDoc /\ store[i].status = StatusDelivered
       /\ Len(commits[i]) = 2
       /\ commits[i][1].old = StatusNew /\ commits[i][1].new = StatusInProgress
       /\ commits[i][2].old = StatusInProgress /\ commits[i][2].new = StatusDelivered
       /\ \E p \in Procs : proc[p].updErr = StatusConflict /\ proc[p].newStatus = StatusCancelled

\* ---------------------------------------------------------------------------
\* UpdateOrderStatus when the order cannot be read

\* the step is the first one of an UpdateOrderStatus call of p
UpdateStartStep(p) == proc[p].pc = "idle" /\ proc'[p].op = "UpdateOrderStatus"

\* the UpdateOrderStatus call of p ended at its FindByID, which failed
FindFailed(p) ==
    /\ proc[p].op = "UpdateOrderStatus" /\ proc[p].pc = "ret"
    /\ proc[p].order = NoOrder

\* C33: if the initial FindByID of UpdateOrderStatus fails, with NotFound or
\* with a store failure, the operation returns the status of that failure and
\* no order, and makes no Update, no cache invalidation and no publish; the
\* store, the cache and the event stream are unchanged.
C33_FailedReadAborts ==
    /\ [][ \A p \in Procs : UpdateStartStep(p) =>
             LET i == proc'[p].orderID IN
             /\ store' = store /\ cache' = cache /\ handed' = handed
             /\ store[i] = NoDoc =>
                   /\ proc'[p].pc = "ret"
                   /\ proc'[p].result \in { Failure(FindByID(store, i, FALSE).err),
                                            Failure(FindByID(store, i, TRUE).err) }
             /\ proc'[p].order = NoOrder =>
                   /\ proc'[p].pc = "ret"
                   /\ proc'[p].calls = <<"FindByID">>
                   /\ proc'[p].result \in { Failure(StatusNotFound),
                                            Failure(StatusInternalServerError) }
                   /\ proc'[p].result.status = StatusNotFound => store[i] = NoDoc ]_vars
    /\ [](\A p \in Procs :
            FindFailed(p) =>
               /\ proc[p].calls = <<"FindByID">>
               /\ proc[p].result.order = NoOrder
               /\ proc[p].result.status \in {StatusNotFound, StatusInternalServerError})

\* C33 witness: an UpdateOrderStatus whose read of a stored and cached order
\* failed came back with 500 after FindByID alone.
C33_Witness ==
    \E p \in Procs :
       /\ FindFailed(p)
       /\ proc[p].result = Failure(StatusInternalServerError)
       /\ store[proc[p].orderID] # NoDoc /\ cache[proc[p].orderID] # NoBlob

\* ---------------------------------------------------------------------------
\* What a transition leaves alone

\* the fields of a stored document no transition writes
Fixed(d) ==
    [_id |-> d._id, customerId |-> d.customerId, items |-> d.items,
     totalAmount |-> d.totalAmount, createdAt |-> d.createdAt]

\* the same fields of an aggregate
FixedOf(o) ==
    [_id |-> o.ID, customerId |-> o.CustomerID, items |-> o.Items,
     totalAmount |-> o.TotalAmount, createdAt |-> o.CreatedAt]

\* C34: a successful UpdateOrderStatus changes only the status, the version
\* and the update timestamp of the stored record; identifier, customer
\* identifier, items, total amount and creation timestamp of every stored
\* order stay as written at creation, after any sequence of operations.
C34_TransitionKeepsTheRest ==
    /\ [][ \A i \in OrderIDs :
             store[i] # NoDoc =>
                /\ store'[i] # NoDoc
                /\ Fixed(store'[i]) = Fixed(store[i])
                /\ [store'[i] EXCEPT !.status = store[i].status,
                                     !.version = store[i].version,
                                     !.updated_at = store[i].updated_at] = store[i] ]_vars
    /\ [](\A i \in OrderIDs, t \in StatusInputs :
            store[i] # NoDoc =>
               FixedOf(UpdateStatus(ReadOf(i), t, NowAtUpdate(ReadOf(i))).order)
                  = Fixed(store[i]))
    /\ [](\A p \in Procs :
            (proc[p].op = "UpdateOrderStatus" /\ proc[p].result.status = StatusOK)
               => FixedOf(proc[p].result.order) = Fixed(store[proc[p].orderID]))

\* C34 witness: an order has gone through two transitions and still holds
\* the customer, items, total and creation time CreateOrder wrote.
C34_Witness ==
    \E i \in OrderIDs :
       /\ store[i] # NoDoc /\ store[i].version = 3
       /\ Fixed(store[i]) = Fixed(ToBSON(NewOrder(store[i].customerId, store[i].items,
                                                  i, store[i].createdAt).order))
       /\ store[i].updated_at # Unset

\* ---------------------------------------------------------------------------
\* Status and version of a stored order

\* C35: in every reachable state each stored order has one of the four
\* statuses and a version in {1,2,3} coupled to it: version 1 exactly when
\* the status is NEW, IN_PROGRESS implies version 2, DELIVERED implies
\* version 3, CANCELLED implies version 2 or 3; hence at most two
\* UpdateOrderStatus calls ever succeed for one order.
C35_StatusVersionCoupling ==
    \A i \in OrderIDs :
       /\ store[i] # NoDoc =>
             /\ store[i].status \in Statuses
             /\ store[i].version \in {1, 2, 3}
             /\ store[i].version = 1 <=> store[i].status = StatusNew
             /\ store[i].status = StatusInProgress => store[i].version = 2
             /\ store[i].status = StatusDelivered => store[i].version = 3
             /\ store[i].status = StatusCancelled => store[i].version \in {2, 3}
       /\ Len(commits[i]) <= 2
       /\ succ[i] <= 2

\* C35 witness: an order cancelled out of IN_PROGRESS, at version 3 after two
\* successful calls.
C35_Witness ==
    \E i \in OrderIDs :
       /\ store[i] # NoDoc
       /\ store[i].status = StatusCancelled /\ store[i].version = 3
       /\ succ[i] = 2

\* ---------------------------------------------------------------------------
\* What the cache may hold

\* the store held order i with status s at version v, now or earlier
WasStored(i, s, v) ==
    /\ store[i] # NoDoc
    /\ \/ v = 1 /\ s = StatusNew
       \/ \E k \in 1..Len(commits[i]) : commits[i][k].version = v /\ commits[i][k].new = s

\* C36: in every reachable state a cache entry of an order, when present,
\* is a snapshot (status, version) the store held for that order now or
\* earlier: the cached version never exceeds the stored version and the cache
\* never holds a value that was not committed to the store, such as the
\* aggregate of a transition whose Update failed.
C36_CacheHoldsStoredSnapshots ==
    /\ [](\A i \in OrderIDs :
            cache[i] # NoBlob =>
               /\ cache[i].orderId = i
               /\ WasStored(i, cache[i].status, cache[i].version)
               /\ cache[i].version <= store[i].version
               /\ FixedOf(FromJSON(cache[i])) = Fixed(store[i]))
    /\ [][ \A i \in OrderIDs :
             (cache'[i] # cache[i] /\ cache'[i] # NoBlob)
                => cache'[i] = ToJSON(FromBSON(store[i])) \/
                   \E p \in Procs : /\ proc[p].pc = "get_set"
                                    /\ cache'[i] = ToJSON(proc[p].order) ]_vars

\* C36 witness: the cache holds the version-1 snapshot of an order whose
\* stored version is 2, while a request whose Update failed has returned.
C36_Witness ==
    \E i \in OrderIDs, p \in Procs :
       /\ cache[i] # NoBlob /\ cache[i].version = 1 /\ cache[i].status = StatusNew
       /\ store[i] # NoDoc /\ store[i].version = 2
       /\ proc[p].op = "UpdateOrderStatus" /\ proc[p].pc = "ret"
       /\ proc[p].orderID = i
       /\ proc[p].updErr = StatusInternalServerError

\* ---------------------------------------------------------------------------
\* Events and committed transitions

\* event e of order i tells of the k-th committed transition of the order
TellsOf(i, e, k) ==
    /\ commits[i][k].old = e.OldStatus
    /\ commits[i][k].new = e.NewStatus

\* C37: events are published only for committed transitions: in every
\* reachable state the number of publish attempts for an order is at most
\* the number of successful Update writes for it, and the (oldStatus,
\* newStatus) pair of every published event is a legal transition that was
\* committed to the store with that old and new status.
C37_EventsOnlyForCommits ==
    \A i \in OrderIDs :
       /\ Len(handed[i]) <= Len(commits[i])
       /\ \A k \in 1..Len(handed[i]) :
             /\ handed[i][k].OrderID = i
             /\ <<handed[i][k].OldStatus, handed[i][k].NewStatus>> \in LegalEdges
             /\ \E j \in 1..Len(commits[i]) : TellsOf(i, handed[i][k], j)
       /\ \A k, l \in 1..Len(handed[i]) : k # l => handed[i][k] # handed[i][l]

\* C37 witness: both transitions of an order were committed and published,
\* after a third request lost the race for the first one.
C37_Witness ==
    \E i \in OrderIDs :
       /\ Len(commits[i]) = 2 /\ Len(handed[i]) = 2
       /\ TellsOf(i, handed[i][1], 1) /\ TellsOf(i, handed[i][2], 2)
       /\ \E p \in Procs : proc[p].updErr = StatusConflict /\ proc[p].order.Version = 2

\* ---------------------------------------------------------------------------
\* Where a version conflict comes from

\* C38: no spurious conflict: UpdateOrderStatus returns 409 only if the
\* update of another writer of the same order was committed between the
\* FindByID and the Update of this call, that is only if the stored version
\* at write time differs from the version the call read.
C38_NoSpuriousConflict ==
    /\ [][ \A p \in Procs :
             ( UpdateOneStep(p) /\ proc'[p].pc = "upd_lookup" )
                => /\ store[proc[p].orderID].version # proc[p].order.Version - 1
                   /\ CommittedByOther(p, proc[p].orderID, proc[p].order.Version) ]_vars
    /\ [](\A p \in Procs :
            ( proc[p].op = "UpdateOrderStatus" /\ proc[p].pc = "ret"
              /\ proc[p].result.status = StatusConflict )
               => /\ proc[p].updErr = StatusConflict
                  /\ proc[p].calls = <<"FindByID", "Update">>
                  /\ store[proc[p].orderID].version >= proc[p].order.Version
                  /\ CommittedByOther(p, proc[p].orderID, proc[p].order.Version))

\* C38 witness: a call that read version 1 returned 409 after the other
\* request, started from the same read, had committed version 2.
C38_Witness ==
    \E p, q \in Procs :
       /\ p # q
       /\ proc[p].op = "UpdateOrderStatus" /\ proc[p].pc = "ret"
       /\ proc[p].result = Failure(StatusConflict)
       /\ proc[p].order.Version = 2
       /\ p \in proc[q].raced
       /\ commits[proc[p].orderID][1].by = q

\* ---------------------------------------------------------------------------
\* The service built without a producer (KAFKA_ENABLE_PRODUCER false)

\* UpdateOrderStatus, last step, when main passed a nil *kafka.Producer as
\* eventPublisher: PublishOrderEvent marshals the event and dereferences the
\* nil receiver at p.writer; the panic unwinds UpdateOrderStatus, which
\* returns nothing, and gin.Recovery answers the request with 500
UpdateOrderStatus_PublishOrderEvent_NilProducer(p) ==
    /\ proc[p].pc = "upd_publish"
    /\ proc' = [proc EXCEPT ![p] =
           [@ EXCEPT !.pc = "ret", !.pubErr = StatusInternalServerError,
                     !.calls = Append(@, "PublishOrderEvent"),
                     !.result = Failure(StatusInternalServerError)]]
    /\ UNCHANGED <<store, cache, handed, hist>>

NextNoProducer ==
    \/ \E p \in Procs : CreateOrder(p)
    \/ \E p \in Procs : ListOrders(p)
    \/ \E p \in Procs : GetOrderByID_GetOrder(p)
    \/ \E p \in Procs : GetOrderByID_FindByID(p)
    \/ \E p \in Procs : GetOrderByID_SetOrder(p)
    \/ \E p \in Procs : UpdateOrderStatus_FindByID(p)
    \/ \E p \in Procs : UpdateOrderStatus_Update(p)
    \/ \E p \in Procs : Update_FindByID(p)
    \/ \E p \in Procs : UpdateOrderStatus_InvalidateOrder(p)
    \/ \E p \in Procs : UpdateOrderStatus_PublishOrderEvent_NilProducer(p)
    \/ \E p \in Procs : Return(p)
    \/ \E i \in OrderIDs : Expire(i)

\* the service as main builds it when the producer is disabled
SpecNoProducer == Init /\ [][NextNoProducer]_vars

\* the request of p has come to the end of an UpdateOrderStatus call whose
\* write was committed
CommittedAndEnded(p) ==
    /\ proc[p].op = "UpdateOrderStatus" /\ proc[p].pc = "ret"
    /\ Len(proc[p].calls) >= 3

\* C39: when the producer is disabled by configuration, an UpdateOrderStatus
\* call whose Update succeeded still completes and returns the updated order
\* without error, like any other publish failure after the commit.
C39_DisabledProducerStillReturns ==
    \A p \in Procs :
       CommittedAndEnded(p) => proc[p].result = Success(proc[p].order)

\* C39, what the code does: the transition stays committed and the call
\* ends without an order, answered 500.
C39_DisabledProducerPanics ==
    \A p \in Procs :
       CommittedAndEnded(p) =>
          /\ proc[p].result = Failure(StatusInternalServerError)
          /\ store[proc[p].orderID].version >= proc[p].order.Version
          /\ handed[proc[p].orderID] = <<>>

\* C39 witness: with the producer disabled a call committed NEW ->
\* IN_PROGRESS, invalidated the cache and reached the publish.
C39_Witness ==
    \E p \in Procs :
       /\ CommittedAndEnded(p)
       /\ proc[p].calls = <<"FindByID", "Update", "InvalidateOrder", "PublishOrderEvent">>
       /\ store[proc[p].orderID].version = 2
       /\ store[proc[p].orderID].status = StatusInProgress

\* ---------------------------------------------------------------------------
\* The time-to-live of cache entries

\* REDIS_DEFAULT_TTL in time units of the model
DefaultTTL == 2

\* one time unit passes: every entry ages, and Redis drops the entries whose
\* TTL has elapsed since the SET that wrote them
Tick ==
    /\ \E i \in DOMAIN cache : cache[i] # NoBlob
    /\ LET expired(i) == cache[i] # NoBlob /\ age[i] + 1 >= DefaultTTL
       IN /\ cache' = [i \in DOMAIN cache |-> IF expired(i) THEN NoBlob ELSE cache[i]]
          /\ age' = [i \in DOMAIN cache |->
                        IF cache[i] = NoBlob \/ expired(i) THEN 0 ELSE age[i] + 1]
          /\ lateWrite' = [i \in DOMAIN cache |->
                              IF expired(i) THEN FALSE ELSE lateWrite[i]]
    /\ UNCHANGED <<store, handed, proc, commits, succ>>

\* the orders have been created and nothing is cached
InitStored ==
    /\ store = [i \in OrderIDs |-> ToBSON(PairedOrder(i))]
    /\ cache = [i \in OrderIDs |-> NoBlob]
    /\ handed = [i \in OrderIDs |-> <<>>]
    /\ proc = [p \in Procs |-> IdleProc]
    /\ commits = [i \in OrderIDs |-> <<>>]
    /\ succ = [i \in OrderIDs |-> 0]
    /\ lateWrite = [i \in OrderIDs |-> FALSE]
    /\ age = [i \in OrderIDs |-> 0]

NextTimed ==
    \/ \E p \in Procs : GetOrderByID_GetOrder(p)
    \/ \E p \in Procs : GetOrderByID_FindByID(p)
    \/ \E p \in Procs : GetOrderByID_SetOrder(p)
    \/ \E p \in Procs : UpdateOrderStatus_FindByID(p)
    \/ \E p \in Procs : UpdateOrderStatus_Update(p)
    \/ \E p \in Procs : Update_FindByID(p)
    \/ \E p \in Procs : UpdateOrderStatus_InvalidateOrder(p)
    \/ \E p \in Procs : UpdateOrderStatus_PublishOrderEvent(p)
    \/ \E p \in Procs : Return(p)
    \/ Tick

\* a request that has started runs on to its return, and time passes
Progress ==
    /\ \A p \in Procs :
          /\ WF_vars(GetOrderByID_FindByID(p))
          /\ WF_vars(GetOrderByID_SetOrder(p))
          /\ WF_vars(UpdateOrderStatus_Update(p))
          /\ WF_vars(Update_FindByID(p))
          /\ WF_vars(UpdateOrderStatus_InvalidateOrder(p))
          /\ WF_vars(UpdateOrderStatus_PublishOrderEvent(p))
          /\ WF_vars(Return(p))
    /\ WF_vars(Tick)

\* reads and transitions of stored orders with the clock of Redis running
SpecTimed == InitStored /\ [][NextTimed]_vars /\ Progress

\* the step is the SetOrder call of the request of p, and Redis took the SET
SetStep(p) ==
    /\ proc[p].pc = "get_set" /\ proc'[p].pc # "get_set"
    /\ proc'[p].setErr = NoErr

\* the cache and every returned read of order i show version v
ShowsVersion(i, v) ==
    /\ cache[i] # NoBlob => cache[i].version = v /\ cache[i].status = store[i].status
    /\ \A g \in Procs :
          (GotOrder(g) /\ proc[g].orderID = i) =>
             /\ proc[g].result.order.Version = v
             /\ proc[g].result.order.Status = store[i].status

\* C31: SetOrder replaces any entry of the order and restarts its time to
\* live; GetOrder never extends it; every entry is absent once the TTL has
\* elapsed since the put that wrote it; so once transitions on an order
\* stop, GetOrderByID eventually returns the stored status and version.
C31_EntriesExpire ==
    /\ [][ \A p \in Procs :
             /\ SetStep(p) => /\ cache'[proc[p].orderID] = ToJSON(proc[p].order)
                              /\ age'[proc[p].orderID] = 0
             /\ GetStep(p) => cache' = cache /\ age' = age ]_vars
    /\ [](\A i \in OrderIDs : age[i] < DefaultTTL /\ (cache[i] = NoBlob => age[i] = 0))
    /\ \A i \in OrderIDs, v \in {1, 2, 3} :
          <>[](store[i].version = v) => <>[]ShowsVersion(i, v)

\* C31 witness: an entry one time unit old is older than the stored record,
\* and a GetOrderByID has just returned it.
C31_Witness ==
    \E i \in OrderIDs, g \in Procs :
       /\ cache[i] # NoBlob /\ age[i] = DefaultTTL - 1
       /\ cache[i].version < store[i].version
       /\ GotOrder(g) /\ proc[g].orderID = i
       /\ proc[g].calls = <<"GetOrder">>
       /\ proc[g].result.order = FromJSON(cache[i])

=============================================================================
